---- MODULE Spec2Model ----
(***************************************************************************)
(* Model of the image-digger service (src/image-digger/src/index.ts):      *)
(* the file-backed Feed Cache, the GET /article viewer and the GET /?feed= *)
(* handler with its concurrent article scans.  One action is one run of    *)
(* the single-threaded event loop: a handler or a continuation runs from   *)
(* one completed I/O operation to the next await of a pending one.         *)
(* The second half models the ai-daily-recap service: the dig cache and    *)
(* the POST /dig/stream proxy, the recap storage, GET /?feed=, the recap   *)
(* generations and the midnight scheduler.                                 *)
(***************************************************************************)
EXTENDS Integers, Sequences, FiniteSets, TLC

(* ------------------------------ bounds --------------------------------- *)
MaxReqs == 2          \* GET / requests per behaviour
MaxFeedLen == 2       \* items of a source feed in Spec
MaxScans == 3         \* article scans per behaviour of Spec, over all requests
LongExtra == 2        \* SpecSort: a long feed has KeepCount + 1 .. KeepCount + LongExtra items
MaxDim == 2           \* SpecSelect: image widths and heights range over 0..MaxDim

(* ----------------------- JavaScript values ----------------------------- *)
Null == "<null>"
Undefined == "<undefined>"

Falsy(s) == s \in {Null, Undefined, ""}

\* template-literal interpolation `${v}`
Interpolate(v) == IF v = Undefined THEN "undefined" ELSE IF v = Null THEN "null" ELSE v

\* `${v ?? ''}`
InterpolateOrEmpty(v) == IF v \in {Undefined, Null} THEN "" ELSE v

\* obj.key of a parsed JSON object: a missing key reads as undefined
Field(obj, key) == IF key \in DOMAIN obj THEN obj[key] ELSE Undefined

\* JSON.stringify of one object: keys whose value is undefined are dropped
StringifyObject(obj) ==
    LET keys == {k \in DOMAIN obj : obj[k] # Undefined}
    IN  [k \in keys |-> obj[k]]

\* JSON.stringify of an array of objects (the text is kept in parsed form)
JSONStringify(arr) == [i \in 1..Len(arr) |-> StringifyObject(arr[i])]

(* --------------------------- Feed Cache -------------------------------- *)
\* the content of CACHE_FILE: JSON text (kept in parsed form), or something that
\* cannot be read or parsed
FileOf(text) == [readable |-> TRUE, text |-> text]
Unreadable == [readable |-> FALSE, text |-> <<>>]

EmptyEntry == [guid |-> "", imageUrl |-> "", description |-> "", title |-> ""]

\* JSON.parse(fs.readFileSync(CACHE_FILE)), with its catch branch
getCache(file) == IF ~file.readable THEN <<EmptyEntry>> ELSE file.text

\* Array.prototype.findIndex on c.guid === guid; 0 stands for -1
findIndex(cache, guid) ==
    LET hits == {i \in 1..Len(cache) : Field(cache[i], "guid") = guid}
    IN  IF hits = {} THEN 0 ELSE CHOOSE i \in hits : \A j \in hits : i <= j

\* the result of getCacheForGuid: null, or the entry found
NullResult == [isNull |-> TRUE]
Found(entry) == [isNull |-> FALSE, value |-> entry]

getCacheForGuid_OffByOne(file, guid) ==
    LET cache == getCache(file)
        idx == findIndex(cache, guid)
    IN  IF idx > 1 THEN Found(cache[idx]) ELSE NullResult

getCacheForGuid(file, guid) ==
    LET cache == getCache(file)
        idx == findIndex(cache, guid)
    IN  IF idx >= 1 THEN Found(cache[idx]) ELSE NullResult

NewEntry(guid, imageUrl, title, description) ==
    [guid |-> guid, imageUrl |-> imageUrl, title |-> title, description |-> description]

setCache_AlwaysPush(file, guid, imageUrl, title, description) ==
    FileOf(JSONStringify(Append(getCache(file), NewEntry(guid, imageUrl, title, description))))

setCache_NoUpdate(file, guid, imageUrl, title, description) ==
    LET cache == getCache(file)
        idx == findIndex(cache, guid)
    IN  FileOf(JSONStringify(IF idx >= 1 THEN cache
                             ELSE Append(cache, NewEntry(guid, imageUrl, title, description))))

setCache_FreshArray(file, guid, imageUrl, title, description) ==
    FileOf(JSONStringify(<<NewEntry(guid, imageUrl, title, description)>>))

\* the content of CACHE_FILE after setCache(guid, imageUrl, title, description)
setCache(file, guid, imageUrl, title, description) ==
    LET cache == getCache(file)
        idx == findIndex(cache, guid)
        entry == NewEntry(guid, imageUrl, title, description)
    IN  FileOf(JSONStringify(IF idx >= 1 THEN [cache EXCEPT ![idx] = entry]
                             ELSE Append(cache, entry)))

(* ------------------------- the web (environment) ----------------------- *)
\* the characters of the img src values that occur on the modelled pages
Chars(src) ==
    CASE src = ""       -> <<>>
      [] src = "a.jpg"  -> <<"a", ".", "j", "p", "g">>
      [] src = "b.png"  -> <<"b", ".", "p", "n", "g">>
      [] src = "g.png"  -> <<"g", ".", "p", "n", "g">>
      [] src = "z.png"  -> <<"z", ".", "p", "n", "g">>
      [] src = "cjpg"   -> <<"c", "j", "p", "g">>
      [] src = "jpg"    -> <<"j", "p", "g">>
      [] src = "d.JPG"  -> <<"d", ".", "J", "P", "G">>
      [] src = "e.gif"  -> <<"e", ".", "g", "i", "f">>
      [] src = "f.jpg?w=1" -> <<"f", ".", "j", "p", "g", "?", "w", "=", "1">>
      [] src = "h\njpg" -> <<"h", "\n", "j", "p", "g">>

ImgSrcs == {"", "a.jpg", "b.png", "g.png", "z.png", "cjpg", "jpg", "d.JPG", "e.gif",
            "f.jpg?w=1", "h\njpg"}

LineTerminators == {"\n", "\r"}

Last(cs, n) == SubSeq(cs, Len(cs) - n + 1, Len(cs))

\* src ends in the four characters .jpg or .png
EndsInDotJpgOrPng(src) ==
    LET cs == Chars(src)
    IN  /\ Len(cs) >= 4
        /\ Last(cs, 4) \in {<<".", "j", "p", "g">>, <<".", "p", "n", "g">>}

\* /.(jpg|png)$/.test(src): any one character that is not a line terminator,
\* then jpg or png, then the end of the string
RegexTest(src) ==
    LET cs == Chars(src)
    IN  /\ Len(cs) >= 4
        /\ Last(cs, 3) \in {<<"j", "p", "g">>, <<"p", "n", "g">>}
        /\ cs[Len(cs) - 3] \notin LineTerminators

\* blobs: null (no download), the bytes of an image, bytes image-size cannot decode
NoBlob == [kind |-> "null", w |-> 0, h |-> 0]
Image(w, h) == [kind |-> "image", w |-> w, h |-> h]
Garbage == [kind |-> "garbage", w |-> 0, h |-> 0]

\* what a download of each src returns in Spec
FixedImages ==
    [src \in ImgSrcs |->
        CASE src = "a.jpg" -> Image(2, 1)
          [] src = "b.png" -> Image(1, 2)
          [] src = "cjpg"  -> Image(2, 2)
          [] src = "z.png" -> Image(0, 1)
          [] src = "g.png" -> Garbage
          [] OTHER         -> Garbage]

\* the img[src] lists of the article pages in Spec
Pages ==
    { <<>>,
      <<"e.gif", "b.png">>,
      <<"cjpg">>,
      <<"d.JPG", "jpg", "", "f.jpg?w=1", "h\njpg">>,
      <<"z.png">>,
      <<"g.png">> }

(* ------------------------ largest-image selector ----------------------- *)
imageSize(blob) == [width |-> blob.w, height |-> blob.h]

NoBiggest == [size |-> 0, url |-> "", threw |-> FALSE]

RECURSIVE BiggestFrom_NotStrict(_, _, _)
BiggestFrom_NotStrict(imgs, i, biggest) ==
    IF i > Len(imgs) THEN biggest
    ELSE LET img == imgs[i]
         IN  IF img.blob.kind = "null" THEN BiggestFrom_NotStrict(imgs, i + 1, biggest)
             ELSE IF img.blob.kind = "garbage" THEN [biggest EXCEPT !.threw = TRUE]
             ELSE LET size == imageSize(img.blob)
                  IN  IF size.width * size.height >= biggest.size
                      THEN BiggestFrom_NotStrict(imgs, i + 1,
                              [size |-> size.width * size.height, url |-> img.url, threw |-> FALSE])
                      ELSE BiggestFrom_NotStrict(imgs, i + 1, biggest)

\* the loop `for (const img of imgs)` from its i-th iteration on; threw: imageSize raised
RECURSIVE BiggestFrom(_, _, _)
BiggestFrom(imgs, i, biggest) ==
    IF i > Len(imgs) THEN biggest
    ELSE LET img == imgs[i]
         IN  IF img.blob.kind = "null" THEN BiggestFrom(imgs, i + 1, biggest)
             ELSE IF img.blob.kind = "garbage" THEN [biggest EXCEPT !.threw = TRUE]
             ELSE LET size == imageSize(img.blob)
                  IN  IF size.width * size.height > biggest.size
                      THEN BiggestFrom(imgs, i + 1,
                              [size |-> size.width * size.height, url |-> img.url, threw |-> FALSE])
                      ELSE BiggestFrom(imgs, i + 1, biggest)

(* --------------------------- sort and slice ---------------------------- *)
KeepCount == 10
MaxDate == KeepCount + LongExtra + 1

Num(t) == [nan |-> FALSE, t |-> t]
NaNValue == [nan |-> TRUE, t |-> 0]

\* Date.parse: the modelled date strings are the decimal numerals of 0..MaxDate
DateParse(s) ==
    IF \E n \in 0..MaxDate : ToString(n) = s
    THEN Num(CHOOSE n \in 0..MaxDate : ToString(n) = s)
    ELSE NaNValue

Minus(x, y) == IF x.nan \/ y.nan THEN NaNValue ELSE Num(x.t - y.t)

compare_Ascending(a, b) == Minus(DateParse(a.pubDate), DateParse(b.pubDate))

\* (a, b) => Date.parse(b.pubDate) - Date.parse(a.pubDate)
compare(a, b) == Minus(DateParse(b.pubDate), DateParse(a.pubDate))

\* x is put before the first element it must precede, after all others (stable)
InsertSorted(s, x) ==
    LET before == {j \in 1..Len(s) : compare(x, s[j]).t < 0}
        pos == IF before = {} THEN Len(s) + 1
               ELSE CHOOSE j \in before : \A k \in before : j <= k
    IN  SubSeq(s, 1, pos - 1) \o <<x>> \o SubSeq(s, pos, Len(s))

RECURSIVE StableSort(_, _, _)
StableSort(items, i, acc) ==
    IF i > Len(items) THEN acc ELSE StableSort(items, i + 1, InsertSorted(acc, items[i]))

Reorderings(items) ==
    LET n == Len(items)
        bij == {p \in [1..n -> 1..n] : \A i, j \in 1..n : p[i] = p[j] => i = j}
    IN  {[i \in 1..n |-> items[p[i]]] : p \in bij}

\* the arrays items.sort(compare) can leave: the stable order when compare is a
\* consistent comparator, an implementation-defined order when it returns NaN
sort(items) ==
    IF \E i, j \in 1..Len(items) : i # j /\ compare(items[i], items[j]).nan
    THEN Reorderings(items)
    ELSE {StableSort(items, 1, <<>>)}

Min(a, b) == IF a <= b THEN a ELSE b

\* items.slice(0, KeepCount)
slice(items) == SubSeq(items, 1, Min(Len(items), KeepCount))

(* ------------------------------- state --------------------------------- *)
VARIABLES
    cacheFile,   \* content of CACHE_FILE: Unreadable or the array it holds
    imageAt,     \* the web: the blob a download of each img src returns
    req,         \* req[r]: the r-th GET / request and its handler
    scan,        \* scan[r][i]: the promise executor of the i-th retained item
    downloads,   \* the img srcs a download was issued for
    last,        \* what the latest step did (its inputs and results), for the properties
    digCacheFile,\* ai-daily-recap: the content of /tmp/ai-daily-dig-cache.json
    dig,         \* dig[d]: the d-th /dig/stream request and its handler
    dlast,       \* what the latest step of the dig feature did
    clock,       \* Date.now() of the ai-daily-recap process, in ms
    storage,     \* the content of /tmp/ai-daily-recap-storage.json
    sched,       \* the timers of the midnight scheduler and what they triggered
    tasks,       \* the recap generations in progress
    alive,       \* the ai-daily-recap process is running
    rlast,       \* what the latest step of the recap feature did
    web          \* what the source feeds hold

vars == <<cacheFile, imageAt, req, scan, downloads, last,
          digCacheFile, dig, dlast, clock, storage, sched, tasks, alive, rlast, web>>

diggerVars == <<cacheFile, imageAt, req, scan, downloads, last>>
digVars == <<digCacheFile, dig, dlast>>
recapVars == <<storage, sched, tasks, alive, rlast, web>>

Reqs == 1..MaxReqs

\* op: "none", "request", "feed" (the feed as received), "article" (the response),
\* "scan" (an executor ended: its candidates, its outcome, why it raised if it did,
\* and the setCache call if it made one)
NoLast ==
    [op |-> "none", r |-> 0, i |-> 0, feed |-> "", inItems |-> <<>>,
     guid |-> "", imageUrl |-> "", title |-> "", description |-> "",
     status |-> 0, cors |-> FALSE, imgs |-> <<>>, outcome |-> "", why |-> "",
     set |-> FALSE, before |-> 0, present |-> FALSE]

IdleReq ==
    [pc |-> "idle", status |-> 0, cors |-> FALSE, fetches |-> 0, feedFailed |-> FALSE,
     items |-> <<>>, pageFetches |-> <<>>, out |-> <<>>]

(* ================= ai-daily-recap: the dig cache (digCache.ts) ================= *)
MaxDigs == 2          \* /dig/stream requests per behaviour
MaxChunks == 2        \* chunks of one upstream stream
MaxCacheLen == 2      \* entries of a dig cache file found at startup

DIG_TTL_MS == 7 * 24 * 60 * 60 * 1000

\* the instants of the dig feature: three close ones, and two a TTL later
DigInstants == {0, 1, 2, DIG_TTL_MS + 1, DIG_TTL_MS + 2}

\* Date.prototype.toISOString, and Date.parse on the strings it gives; any other
\* modelled string is not a date
toISOString(t) == "T" \o ToString(t)

DateParseISO(s) ==
    IF \E t \in DigInstants : toISOString(t) = s
    THEN Num(CHOOSE t \in DigInstants : toISOString(t) = s)
    ELSE NaNValue

DEFAULT_CACHE == [entries |-> <<>>]

isExpired_AtTtl(entry, now) ==
    LET created == DateParseISO(entry.createdAt)
    IN  created.nan \/ now - created.t >= DIG_TTL_MS

\* isNaN(created) || now.getTime() - created > DIG_TTL_MS
isExpired(entry, now) ==
    LET created == DateParseISO(entry.createdAt)
    IN  created.nan \/ now - created.t > DIG_TTL_MS

\* every entry has the three fields, each a string
isValidCache(entries) ==
    \A k \in 1..Len(entries) :
        /\ Field(entries[k], "articleUrl") # Undefined
        /\ Field(entries[k], "markdown") # Undefined
        /\ Field(entries[k], "createdAt") # Undefined

\* `typeof v === 'string' ? v : ''`
StringOrEmpty(v) == IF v = Undefined THEN "" ELSE v

\* the loop of readDigCache over a file of another shape: byUrl keeps, in the
\* order the urls first appear, the entry of each url with the greatest
\* Date.parse(createdAt) (a comparison with NaN is false)
RECURSIVE Collapse(_, _, _)
Collapse(list, k, byUrl) ==
    IF k > Len(list) THEN byUrl
    ELSE LET url == StringOrEmpty(Field(list[k], "articleUrl"))
             markdown == StringOrEmpty(Field(list[k], "markdown"))
             createdAt == StringOrEmpty(Field(list[k], "createdAt"))
             at == {j \in 1..Len(byUrl) : byUrl[j].articleUrl = url}
             entry == [articleUrl |-> url, markdown |-> markdown, createdAt |-> createdAt]
             newer(j) == LET c == DateParseISO(createdAt)
                             e == DateParseISO(byUrl[j].createdAt)
                         IN  ~c.nan /\ ~e.nan /\ c.t > e.t
         IN  IF url = "" \/ markdown = "" \/ createdAt = ""
             THEN Collapse(list, k + 1, byUrl)
             ELSE IF at = {} THEN Collapse(list, k + 1, Append(byUrl, entry))
             ELSE LET j == CHOOSE j \in at : TRUE
                  IN  IF newer(j) THEN Collapse(list, k + 1, [byUrl EXCEPT ![j] = entry])
                      ELSE Collapse(list, k + 1, byUrl)

\* readDigCache: the entries of the file, { ...DEFAULT_CACHE } when it cannot be
\* read or parsed
readDigCache(file) ==
    IF ~file.readable THEN DEFAULT_CACHE
    ELSE IF isValidCache(file.text.entries) THEN file.text
    ELSE [entries |-> Collapse(file.text.entries, 1, <<>>)]

\* JSON.stringify(cache, null, 2)
writeDigCache(cache) == FileOf([entries |-> JSONStringify(cache.entries)])

\* entries.find / entries.findIndex on articleUrl: 0 when there is none
findDig(entries, articleUrl) ==
    LET hits == {k \in 1..Len(entries) : Field(entries[k], "articleUrl") = articleUrl}
    IN  IF hits = {} THEN 0 ELSE CHOOSE k \in hits : \A j \in hits : k <= j

getCachedDig(file, articleUrl, now) ==
    LET cache == readDigCache(file)
        k == findDig(cache.entries, articleUrl)
    IN  IF k = 0 THEN NullResult
        ELSE IF isExpired(cache.entries[k], now) THEN NullResult
        ELSE Found(cache.entries[k])

setCachedDig_NoPrune(file, articleUrl, markdown, now) ==
    LET cache == readDigCache(file)
        index == findDig(cache.entries, articleUrl)
        newEntry == [articleUrl |-> articleUrl, markdown |-> markdown,
                     createdAt |-> toISOString(now)]
        entries == IF index >= 1 THEN [cache.entries EXCEPT ![index] = newEntry]
                   ELSE Append(cache.entries, newEntry)
    IN  writeDigCache([entries |-> entries])

\* setCachedDig: the file after the call
setCachedDig(file, articleUrl, markdown, now) ==
    LET cache == readDigCache(file)
        index == findDig(cache.entries, articleUrl)
        newEntry == [articleUrl |-> articleUrl, markdown |-> markdown,
                     createdAt |-> toISOString(now)]
        entries == IF index >= 1 THEN [cache.entries EXCEPT ![index] = newEntry]
                   ELSE Append(cache.entries, newEntry)
        live(e) == ~isExpired(e, now)
    IN  writeDigCache([entries |-> SelectSeq(entries, live)])

(* ---------------------- the state of the dig feature ------------------- *)
Digs == 1..MaxDigs

NoErr == [kind |-> "none", status |-> 0]

\* pc: "idle", "body" (await req.json()), "first" and "second" (await gen.next()
\* of the first and of the second upstream request), "streaming", "responded"
IdleDig ==
    [pc |-> "idle", status |-> 0, articleUrl |-> "", initialDig |-> FALSE,
     attempts |-> 0, firstErr |-> NoErr, streamed |-> <<>>, accum |-> "", chunks |-> 0]

\* op: "none", "get" and "set" (a call of getCachedDig, of setCachedDig: with
\* what, and for a "set" the markdown and the file before the call),
\* "fail" (an upstream request failed: which attempt, with what)
NoDLast ==
    [op |-> "none", d |-> 0, articleUrl |-> "", now |-> 0, got |-> NullResult,
     attempt |-> 0, err |-> NoErr, markdown |-> "", before |-> Unreadable]

\* initializeDigCache on a machine without cache file, no request yet
DigAtRest ==
    /\ digCacheFile = FileOf(DEFAULT_CACHE)
    /\ dig = [d \in Digs |-> IdleDig]
    /\ dlast = NoDLast

(* ============ ai-daily-recap: storage, recaps and the scheduler ============ *)
MaxHist == 1          \* generateHistoricalRecaps runs per behaviour
MaxMidnights == 2     \* midnights crossed after startup
StartDay == 6         \* the day the process starts on (days count from the epoch)

msInDay == 24 * 60 * 60 * 1000
HistDays == 5

RecapFeeds == {"http://f", "http://g"}

\* readStorage: JSON.parse of the file, { feeds: [] } when that throws
readStorage(file) == IF file.readable THEN file.text ELSE [feeds |-> <<>>]

\* storage[feedUrl] || null, as a result record
getDailyRecaps(file, feedUrl) ==
    LET obj == readStorage(file)
    IN  IF feedUrl \in DOMAIN obj THEN Found(obj[feedUrl]) ELSE NullResult

storeRecap_AlwaysPush(file, feedUrl, recap) ==
    LET obj == readStorage(file)
        recaps == IF feedUrl \in DOMAIN obj THEN obj[feedUrl] ELSE <<>>
    IN  FileOf([key \in DOMAIN obj \cup {feedUrl} |->
                   IF key = feedUrl THEN Append(recaps, recap) ELSE obj[key]])

\* storeRecap: the file after the call (writeStorage of the modified object)
storeRecap(file, feedUrl, recap) ==
    LET obj == readStorage(file)
        recaps == IF feedUrl \in DOMAIN obj THEN obj[feedUrl] ELSE <<>>
        hits == {k \in 1..Len(recaps) : recaps[k].date = recap.date}
        existingIndex == IF hits = {} THEN 0 ELSE CHOOSE k \in hits : \A j \in hits : k <= j
        stored == IF existingIndex >= 1 THEN [recaps EXCEPT ![existingIndex] = recap]
                  ELSE Append(recaps, recap)
    IN  FileOf([key \in DOMAIN obj \cup {feedUrl} |->
                   IF key = feedUrl THEN stored ELSE obj[key]])

\* no timer set (timeout, interval: the instant the timer is due at)
NoTimer == 0 - 1

NoSched == [started |-> 0, timeout |-> NoTimer, interval |-> NoTimer, triggers |-> {}]

\* op: "none", "request" (GET /: the feed asked for, the status, whether a
\* historical generation was started), "trigger" (the interval callback ran),
\* "fetched", "stored", "failed", "exit" (a step of the generation tasks[k]),
\* "store" (a call of storeRecap: the feed, and the date and html of the recap);
\* out: the items of the feed a request is answered with
NoRLast ==
    [op |-> "none", k |-> 0, feed |-> "", status |-> 0, started |-> FALSE, date |-> "",
     html |-> "", out |-> <<>>]

\* initializeStorage on a machine without storage file; nothing scheduled yet
RecapAtRest ==
    /\ clock = 0
    /\ storage = FileOf([feeds |-> <<>>])
    /\ sched = NoSched
    /\ tasks = <<>>
    /\ alive = TRUE
    /\ rlast = NoRLast
    /\ web = [f \in RecapFeeds |-> <<>>]

\* module startup: CACHE_FILE is rewritten as [] and the server listens
Init ==
    /\ cacheFile = FileOf(JSONStringify(<<>>))
    /\ imageAt = FixedImages
    /\ req = [r \in Reqs |-> IdleReq]
    /\ scan = [r \in Reqs |-> <<>>]
    /\ downloads = {}
    /\ last = NoLast
    /\ DigAtRest
    /\ RecapAtRest

(* ------------------------------ source feeds --------------------------- *)
Item(guid, title, description, link, pubDate) ==
    [guid |-> guid, title |-> title, description |-> description, link |-> link,
     pubDate |-> pubDate]

\* g1 occurs twice (an article that is published again); the date of g2 does not parse
ItemPool ==
    { Item("g1", "T1", "D1", "http://site/1", "3"),
      Item("g2", "T2", Undefined, "http://site/2", "yesterday"),
      Item("g1", "T1b", "D1b", "http://site/1b", "1") }

RECURSIVE SeqsOver(_, _)
SeqsOver(S, n) ==
    IF n = 0 THEN {<<>>}
    ELSE LET shorter == SeqsOver(S, n - 1)
         IN  shorter \cup {Append(s, x) : s \in {t \in shorter : Len(t) = n - 1},
                                           x \in S}

Distinct(s) == \A i, j \in 1..Len(s) : s[i] = s[j] => i = j

Feeds == {f \in SeqsOver(ItemPool, MaxFeedLen) : Distinct(f)}

FeedParams == {Null, "", "http://site/feed"}

GuidParams == {Null, "", "g1", "g2", "unknown-id"}

(* ----------------------------- GET /article ---------------------------- *)
\* routes["/article"]: the handler has no await, it runs in one step
Article ==
    /\ \E guid \in GuidParams :
         LET cache == getCacheForGuid(cacheFile, guid)
         IN  last' =
               IF Falsy(guid)
               THEN [NoLast EXCEPT !.op = "article", !.guid = guid, !.status = 400]
               ELSE IF cache.isNull
               THEN [NoLast EXCEPT !.op = "article", !.guid = guid, !.status = 404]
               ELSE [NoLast EXCEPT !.op = "article", !.guid = guid, !.status = 200,
                                   !.cors = TRUE,
                                   !.title = Interpolate(Field(cache.value, "title")),
                                   !.imageUrl = Interpolate(Field(cache.value, "imageUrl")),
                                   !.description =
                                       InterpolateOrEmpty(Field(cache.value, "description"))]
    /\ UNCHANGED <<cacheFile, imageAt, req, scan, downloads>>
    /\ UNCHANGED <<digVars, clock, recapVars>>

(* -------------------------------- GET / -------------------------------- *)
Request_FetchesFirst(r) ==
    /\ req[r].pc = "idle"
    /\ r > 1 => req[r - 1].pc # "idle"
    /\ \E feed \in FeedParams :
         /\ req' = [req EXCEPT ![r] =
                   IF Falsy(feed)
                   THEN [@ EXCEPT !.pc = "responded", !.status = 400, !.fetches = @ + 1]
                   ELSE [@ EXCEPT !.pc = "parsing", !.fetches = @ + 1]]
         /\ last' = [NoLast EXCEPT !.op = "request", !.r = r, !.feed = feed]
    /\ UNCHANGED <<cacheFile, imageAt, scan, downloads>>
    /\ UNCHANGED <<digVars, clock, recapVars>>

\* the handler up to `await parser.parseURL(feed)`; requests are numbered as they arrive
Request(r) ==
    /\ req[r].pc = "idle"
    /\ r > 1 => req[r - 1].pc # "idle"
    /\ \E feed \in FeedParams :
         /\ req' = [req EXCEPT ![r] =
                   IF Falsy(feed)
                   THEN [@ EXCEPT !.pc = "responded", !.status = 400]
                   ELSE [@ EXCEPT !.pc = "parsing", !.fetches = @ + 1]]
         /\ last' = [NoLast EXCEPT !.op = "request", !.r = r, !.feed = feed]
    /\ UNCHANGED <<cacheFile, imageAt, scan, downloads>>
    /\ UNCHANGED <<digVars, clock, recapVars>>

FeedFails_Retry(r) ==
    /\ req[r].pc = "parsing"
    /\ req' = [req EXCEPT ![r] =
                 IF @.fetches < 2
                 THEN [@ EXCEPT !.fetches = @ + 1]
                 ELSE [@ EXCEPT !.pc = "responded", !.status = 500, !.feedFailed = TRUE]]
    /\ last' = NoLast
    /\ UNCHANGED <<cacheFile, imageAt, scan, downloads>>
    /\ UNCHANGED <<digVars, clock, recapVars>>

\* parser.parseURL rejects: the handler throws and the server answers 500
FeedFails(r) ==
    /\ req[r].pc = "parsing"
    /\ req' = [req EXCEPT ![r] =
                 [@ EXCEPT !.pc = "responded", !.status = 500, !.feedFailed = TRUE]]
    /\ last' = NoLast
    /\ UNCHANGED <<cacheFile, imageAt, scan, downloads>>
    /\ UNCHANGED <<digVars, clock, recapVars>>

NewScan ==
    [pc |-> "page", pending |-> {}, imgs |-> <<>>, url |-> ""]

\* parser.parseURL resolves: sort, slice, and the for loop, in which every
\* executor runs up to its `await fetch(item.link)`; then `await Promise.all(proms)`
FeedParsed(r, feeds) ==
    /\ req[r].pc = "parsing"
    /\ \E inItems \in feeds : \E sorted \in sort(inItems) :
         LET items == slice(sorted)
             n == Len(items)
         IN  /\ scan' = [scan EXCEPT ![r] = [i \in 1..n |-> NewScan]]
             /\ req' = [req EXCEPT ![r] =
                          [@ EXCEPT !.items = items,
                                    !.pageFetches = [i \in 1..n |-> items[i].link],
                                    !.pc = IF n = 0 THEN "responded" ELSE "scanning",
                                    !.status = IF n = 0 THEN 200 ELSE 0]]
             /\ last' = [NoLast EXCEPT !.op = "feed", !.r = r, !.inItems = inItems]
    /\ UNCHANGED <<cacheFile, imageAt, downloads>>
    /\ UNCHANGED <<digVars, clock, recapVars>>

(* ----------------------------- article scan ---------------------------- *)
\* the argument of resolve(...)
FeedEntry(item, url) ==
    [title |-> item.title, description |-> item.description,
     url |-> [route |-> "/article", guid |-> item.guid],
     guid |-> item.guid, enclosure |-> url, date |-> item.pubDate]

Scanning(r, i, pc) == i \in 1..Len(scan[r]) /\ scan[r][i].pc = pc

\* what is left of a scan once its executor has ended
Ended(pc, url) == [NewScan EXCEPT !.pc = pc, !.url = url]

\* the step ran the executor to its end on the candidates sc.imgs
Scanned(r, i, sc, outcome) ==
    [NoLast EXCEPT !.op = "scan", !.r = r, !.i = i, !.imgs = sc.imgs, !.outcome = outcome]

\* the executor raises: its own promise rejects unhandled, p stays pending for ever
Throws(r, i, sc, why) ==
    /\ scan' = [scan EXCEPT ![r][i] = Ended("hung", "")]
    /\ last' = [Scanned(r, i, sc, "hung") EXCEPT !.why = why]
    /\ UNCHANGED <<cacheFile, req>>

Rejects_CancelsTheOthers(r, i, sc) ==
    /\ scan' = [scan EXCEPT ![r] =
                  [j \in 1..Len(@) |->
                      IF j = i THEN Ended("rejected", "")
                      ELSE IF @[j].pc \in {"page", "images"} THEN Ended("hung", "")
                      ELSE @[j]]]
    /\ req' = [req EXCEPT ![r] =
                 IF @.pc = "scanning"
                 THEN [@ EXCEPT !.pc = "responded", !.status = 500]
                 ELSE @]
    /\ last' = Scanned(r, i, sc, "rejected")
    /\ UNCHANGED cacheFile

\* reject(): p.then(...) rejects, and so does a Promise.all(proms) still pending
Rejects(r, i, sc) ==
    /\ scan' = [scan EXCEPT ![r][i] = Ended("rejected", "")]
    /\ req' = [req EXCEPT ![r] =
                 IF @.pc = "scanning"
                 THEN [@ EXCEPT !.pc = "responded", !.status = 500]
                 ELSE @]
    /\ last' = Scanned(r, i, sc, "rejected")
    /\ UNCHANGED cacheFile

\* setCache(...) and resolve(...): outFeed.item(res) runs, and Promise.all(proms)
\* resolves once every p has done so: the handler answers new Response(outFeed.xml())
Resolves(r, i, sc, url) ==
    LET item == req[r].items[i]
        others == \A j \in 1..Len(scan[r]) : j # i => scan[r][j].pc = "resolved"
    IN  /\ cacheFile' = setCache(cacheFile, item.guid, url, item.title, item.description)
        /\ last' = [Scanned(r, i, sc, "resolved") EXCEPT
                       !.set = TRUE, !.guid = item.guid, !.imageUrl = url,
                       !.title = item.title, !.description = item.description,
                       !.before = Len(getCache(cacheFile)),
                       !.present = findIndex(getCache(cacheFile), item.guid) >= 1]
        /\ scan' = [scan EXCEPT ![r][i] = Ended("resolved", url)]
        /\ req' = [req EXCEPT ![r] =
                     [@ EXCEPT !.out = Append(@, FeedEntry(item, url)),
                               !.pc = IF @ = "scanning" /\ others THEN "responded" ELSE @,
                               !.status = IF req[r].pc = "scanning" /\ others THEN 200 ELSE @]]

\* the executor from `let biggest` on, all of sc.imgs being there
Selects(r, i, sc) ==
    LET biggest == BiggestFrom(sc.imgs, 1, NoBiggest)
    IN  IF biggest.threw THEN Throws(r, i, sc, "decode")
        ELSE IF biggest.size = 0 THEN Rejects(r, i, sc)
        ELSE Resolves(r, i, sc, biggest.url)

\* fetch(item.link) rejects
PageFails(r, i) ==
    /\ Scanning(r, i, "page")
    /\ Throws(r, i, scan[r][i], "page")
    /\ UNCHANGED <<imageAt, downloads>>
    /\ UNCHANGED <<digVars, clock, recapVars>>

\* fetch(item.link) resolves: the page is parsed, elems.map issues the downloads;
\* with no download to wait for the executor runs on to its end
PageLoaded(r, i, pages) ==
    /\ Scanning(r, i, "page")
    /\ \E elems \in pages :
         LET wanted == {k \in 1..Len(elems) : ~(Falsy(elems[k]) \/ ~RegexTest(elems[k]))}
             imgs == [k \in 1..Len(elems) |->
                        [url |-> IF k \in wanted THEN elems[k] ELSE "", blob |-> NoBlob]]
             sc == [scan[r][i] EXCEPT !.imgs = imgs, !.pending = wanted]
         IN  /\ downloads' = downloads \cup {elems[k] : k \in wanted}
             /\ IF Len(elems) = 0 THEN Rejects(r, i, sc)
                ELSE IF wanted = {} THEN Selects(r, i, sc)
                ELSE /\ scan' = [scan EXCEPT ![r][i] = [sc EXCEPT !.pc = "images"]]
                     /\ last' = NoLast
                     /\ UNCHANGED <<cacheFile, req>>
    /\ UNCHANGED imageAt
    /\ UNCHANGED <<digVars, clock, recapVars>>

\* fetch(imageUrl) rejects: Promise.all of the downloads rejects, the executor raises
DownloadFails(r, i) ==
    /\ Scanning(r, i, "images")
    /\ \E k \in scan[r][i].pending : Throws(r, i, scan[r][i], "download")
    /\ UNCHANGED <<imageAt, downloads>>
    /\ UNCHANGED <<digVars, clock, recapVars>>

\* fetch(imageUrl) resolves with the bytes; after the last one the selection runs
DownloadDone(r, i) ==
    /\ Scanning(r, i, "images")
    /\ \E k \in scan[r][i].pending :
         LET sc == [scan[r][i] EXCEPT !.imgs[k].blob = imageAt[scan[r][i].imgs[k].url],
                                      !.pending = @ \ {k}]
         IN  IF sc.pending = {} THEN Selects(r, i, sc)
             ELSE /\ scan' = [scan EXCEPT ![r][i] = sc]
                  /\ last' = NoLast
                  /\ UNCHANGED <<cacheFile, req>>
    /\ UNCHANGED <<imageAt, downloads>>
    /\ UNCHANGED <<digVars, clock, recapVars>>

\* the source feeds Spec lets a request receive: the scans stay within MaxScans
RECURSIVE SumLen(_, _)
SumLen(f, n) == IF n = 0 THEN 0 ELSE Len(f[n]) + SumLen(f, n - 1)

OfferedFeeds == {f \in Feeds : SumLen(scan, MaxReqs) + Len(f) <= MaxScans}

(* ---------------------------- specification ---------------------------- *)
Next ==
    \/ Article
    \/ \E r \in Reqs : Request(r)
    \/ \E r \in Reqs : FeedFails(r)
    \/ \E r \in Reqs : FeedParsed(r, OfferedFeeds)
    \/ \E r \in Reqs : \E i \in 1..Len(scan[r]) : PageFails(r, i)
    \/ \E r \in Reqs : \E i \in 1..Len(scan[r]) : PageLoaded(r, i, Pages)
    \/ \E r \in Reqs : \E i \in 1..Len(scan[r]) : DownloadFails(r, i)
    \/ \E r \in Reqs : \E i \in 1..Len(scan[r]) : DownloadDone(r, i)

Spec == Init /\ [][Next]_vars

(* --------------- SpecSelect: the selector on every small page ---------- *)
\* one request, one item; the page lists up to three distinct srcs and the web
\* returns any image of 0..MaxDim x 0..MaxDim pixels, or undecodable bytes
SelectSrcs == {"a.jpg", "b.png", "cjpg"}

Blobs == {Image(w, h) : w \in 0..MaxDim, h \in 0..MaxDim} \cup {Garbage}

SelectPages ==
    {p \in SeqsOver(SelectSrcs \cup {"e.gif"}, 3) : Len(p) >= 1 /\ Distinct(p)}

OneItemFeeds == {f \in Feeds : Len(f) = 1 /\ f[1].guid = "g2"}

InitSelect ==
    /\ cacheFile = FileOf(JSONStringify(<<>>))
    /\ imageAt \in {[src \in ImgSrcs |-> IF src \in SelectSrcs THEN w[src]
                                         ELSE FixedImages[src]] :
                       w \in [SelectSrcs -> Blobs]}
    /\ req = [r \in Reqs |-> IdleReq]
    /\ scan = [r \in Reqs |-> <<>>]
    /\ downloads = {}
    /\ last = NoLast
    /\ DigAtRest
    /\ RecapAtRest

NextSelect ==
    \/ Request(1)
    \/ FeedParsed(1, OneItemFeeds)
    \/ PageLoaded(1, 1, SelectPages)
    \/ DownloadFails(1, 1)
    \/ DownloadDone(1, 1)

SpecSelect == InitSelect /\ [][NextSelect]_vars

(* ------------- SpecSort: sort and slice on feeds of many items --------- *)
LongItem(d) ==
    Item("g" \o ToString(d), "T" \o ToString(d), Undefined,
         "http://site/" \o ToString(d), ToString(d))

Rotate(s, k) == SubSeq(s, k + 1, Len(s)) \o SubSeq(s, 1, k)
Reverse(s) == [i \in 1..Len(s) |-> s[Len(s) + 1 - i]]
Swap(s, i, j) == [s EXCEPT ![i] = s[j], ![j] = s[i]]

\* feeds of KeepCount - 1 .. KeepCount + LongExtra items with the dates 1..n, in
\* the orders a rotation, a reversal and one exchange give
LongFeeds ==
    UNION { LET base == [d \in 1..n |-> LongItem(d)]
            IN  UNION { {Swap(Rotate(base, k), i, j), Swap(Reverse(Rotate(base, k)), i, j)} :
                        k \in 0..(n - 1), i \in 1..n, j \in 1..n }
            : n \in (KeepCount - 1)..(KeepCount + LongExtra) }

NextSort ==
    \/ Request(1)
    \/ FeedFails(1)
    \/ FeedParsed(1, LongFeeds)

SpecSort == Init /\ [][NextSort]_vars

(* ------------ SpecRestart: one request at a time, and restarts --------- *)
Restart_KeepsFile ==
    /\ cacheFile' = cacheFile
    /\ req' = [r \in Reqs |-> IdleReq]
    /\ scan' = [r \in Reqs |-> <<>>]
    /\ last' = [NoLast EXCEPT !.op = "restart", !.before = Len(getCache(cacheFile))]
    /\ UNCHANGED <<imageAt, downloads>>
    /\ UNCHANGED <<digVars, clock, recapVars>>

\* the process ends and starts again: the module body rewrites the cache file with
\* JSON.stringify([]), and the handlers that were running are gone
Restart ==
    /\ cacheFile' = FileOf(JSONStringify(<<>>))
    /\ req' = [r \in Reqs |-> IdleReq]
    /\ scan' = [r \in Reqs |-> <<>>]
    /\ last' = [NoLast EXCEPT !.op = "restart", !.before = Len(getCache(cacheFile))]
    /\ UNCHANGED <<imageAt, downloads>>
    /\ UNCHANGED <<digVars, clock, recapVars>>

NextRestart ==
    \/ Article
    \/ Request(1)
    \/ FeedFails(1)
    \/ FeedParsed(1, OfferedFeeds)
    \/ \E i \in 1..Len(scan[1]) : PageFails(1, i)
    \/ \E i \in 1..Len(scan[1]) : PageLoaded(1, i, Pages)
    \/ \E i \in 1..Len(scan[1]) : DownloadFails(1, i)
    \/ \E i \in 1..Len(scan[1]) : DownloadDone(1, i)
    \/ Restart

SpecRestart == Init /\ [][NextRestart]_vars

(* ------ SpecCorrupt: one request at a time, and a cache file gone bad ----- *)
\* something outside the process removes /tmp/rss-digger-cache.txt or leaves in it
\* a text JSON.parse refuses: readFileSync or JSON.parse will throw in getCache
Corrupt ==
    /\ cacheFile.readable
    /\ cacheFile' = Unreadable
    /\ last' = [NoLast EXCEPT !.op = "corrupt"]
    /\ UNCHANGED <<imageAt, req, scan, downloads>>
    /\ UNCHANGED <<digVars, clock, recapVars>>

NextCorrupt ==
    \/ Article
    \/ Request(1)
    \/ FeedFails(1)
    \/ FeedParsed(1, OfferedFeeds)
    \/ \E i \in 1..Len(scan[1]) : PageFails(1, i)
    \/ \E i \in 1..Len(scan[1]) : PageLoaded(1, i, Pages)
    \/ \E i \in 1..Len(scan[1]) : DownloadFails(1, i)
    \/ \E i \in 1..Len(scan[1]) : DownloadDone(1, i)
    \/ Corrupt

SpecCorrupt == Init /\ [][NextCorrupt]_vars

(* ============ SpecDigCache: getCachedDig and setCachedDig on small files ======= *)
DiggerAtRest ==
    /\ cacheFile = FileOf(JSONStringify(<<>>))
    /\ imageAt = FixedImages
    /\ req = [r \in Reqs |-> IdleReq]
    /\ scan = [r \in Reqs |-> <<>>]
    /\ downloads = {}
    /\ last = NoLast

DigUrls == {"http://a", "http://b", "http://c"}

\* entries as setCachedDig writes them, with a createdAt that may be no date; an
\* entry of an older version (a `language` field); an entry without markdown
EntryPool ==
    {[articleUrl |-> u, markdown |-> "m", createdAt |-> c] :
        u \in {"http://a", "http://b"},
        c \in {toISOString(0), toISOString(1), toISOString(2), "soon"}}
    \cup {[articleUrl |-> "http://a", markdown |-> "old", createdAt |-> toISOString(2),
           language |-> "fr"],
          [articleUrl |-> "http://a", createdAt |-> toISOString(1)]}

\* initializeDigCache leaves an existing file as it is
DigFiles ==
    {Unreadable} \cup {FileOf([entries |-> e]) : e \in SeqsOver(EntryPool, MaxCacheLen)}

InitDigCache ==
    /\ DiggerAtRest
    /\ RecapAtRest
    /\ digCacheFile \in DigFiles
    /\ dig = [d \in Digs |-> IdleDig]
    /\ dlast = NoDLast

GetCachedDig ==
    /\ \E articleUrl \in DigUrls, now \in DigInstants :
         dlast' = [NoDLast EXCEPT !.op = "get", !.articleUrl = articleUrl, !.now = now,
                                  !.got = getCachedDig(digCacheFile, articleUrl, now)]
    /\ UNCHANGED <<digCacheFile, dig, diggerVars, clock, recapVars>>

SetCachedDig ==
    /\ \E articleUrl \in DigUrls, now \in DigInstants :
         /\ digCacheFile' = setCachedDig(digCacheFile, articleUrl, "m2", now)
         /\ dlast' = [NoDLast EXCEPT !.op = "set", !.articleUrl = articleUrl, !.now = now,
                                     !.markdown = "m2", !.before = digCacheFile]
    /\ UNCHANGED <<dig, diggerVars, clock, recapVars>>

NextDigCache ==
    \/ GetCachedDig
    \/ SetCachedDig

SpecDigCache == InitDigCache /\ [][NextDigCache]_vars

(* ==================== SpecDig: POST /dig/stream (routes/dig.ts) ================ *)
\* new URL(articleUrl).protocol; Null when new URL throws
Protocol(articleUrl) ==
    IF articleUrl \in {"http://a", "http://b"} THEN "http:"
    ELSE IF articleUrl = "ftp://a" THEN "ftp:"
    ELSE Null

\* body.messages, as the roles of the messages (a body without a messages array
\* gives the empty list)
MessageLists ==
    {<<>>, <<"system", "user">>, <<"user", "system">>, <<"system">>,
     <<"system", "user", "assistant", "user">>}

\* the parsed request bodies
Bodies ==
    {[article_url |-> u, messages |-> m] :
        u \in {Undefined, "not a url", "ftp://a", "http://a", "http://b"},
        m \in MessageLists}

\* messages.length === 2 && messages[0]?.role === "system" && messages[1]?.role === "user"
initialDig(messages) ==
    Len(messages) = 2 /\ messages[1] = "system" /\ messages[2] = "user"

\* what an upstream request fails with before its first chunk: a response that is
\* not ok (HttpResponseError), such a response whose text cannot be read, or no
\* response at all
UpstreamErrs ==
    {[kind |-> "http", status |-> st] : st \in {400, 429, 499, 500, 503, 599}}
    \cup {[kind |-> "body", status |-> 503], [kind |-> "network", status |-> 0]}

\* the chunks of an upstream stream: choices[0].delta.content, and an error field
Chunks == {[content |-> c, error |-> e] : c \in {Undefined, "x"}, e \in BOOLEAN}

\* the handler up to `await req.json()`
DigRequest(d) ==
    /\ dig[d].pc = "idle"
    /\ d > 1 => dig[d - 1].pc # "idle"
    /\ \E method \in {"OPTIONS", "GET", "POST"}, json \in BOOLEAN :
         dig' = [dig EXCEPT ![d] =
                   IF method = "OPTIONS" THEN [@ EXCEPT !.pc = "responded", !.status = 204]
                   ELSE IF method # "POST" THEN [@ EXCEPT !.pc = "responded", !.status = 405]
                   ELSE IF ~json THEN [@ EXCEPT !.pc = "responded", !.status = 400]
                   ELSE [@ EXCEPT !.pc = "body"]]
    /\ dlast' = NoDLast
    /\ UNCHANGED <<digCacheFile, diggerVars, clock, recapVars>>

\* req.json() rejects: the outer catch answers 500
DigBodyFails(d) ==
    /\ dig[d].pc = "body"
    /\ dig' = [dig EXCEPT ![d] = [@ EXCEPT !.pc = "responded", !.status = 500]]
    /\ dlast' = NoDLast
    /\ UNCHANGED <<digCacheFile, diggerVars, clock, recapVars>>

DigBody_CacheForAnyMessages(d) ==
    /\ dig[d].pc = "body"
    /\ \E body \in Bodies :
         LET articleUrl == IF Falsy(body.article_url) THEN "" ELSE body.article_url
             urlOk == Protocol(articleUrl) \in {"http:", "https:"}
             initial == initialDig(body.messages)
             cached == getCachedDig(digCacheFile, articleUrl, clock)
         IN  IF articleUrl = "" \/ ~urlOk
             THEN /\ dig' = [dig EXCEPT ![d] = [@ EXCEPT !.pc = "responded", !.status = 400]]
                  /\ dlast' = NoDLast
             ELSE /\ dig' = [dig EXCEPT ![d] =
                      IF ~cached.isNull
                      THEN [@ EXCEPT !.pc = "responded", !.status = 200,
                                     !.articleUrl = articleUrl, !.initialDig = initial,
                                     !.streamed = <<cached.value.markdown, "[DONE]">>]
                      ELSE [@ EXCEPT !.pc = "first", !.attempts = 1,
                                     !.articleUrl = articleUrl, !.initialDig = initial]]
                  /\ dlast' = [NoDLast EXCEPT !.op = "get", !.d = d,
                                              !.articleUrl = articleUrl,
                                              !.now = clock, !.got = cached]
    /\ UNCHANGED <<digCacheFile, diggerVars, clock, recapVars>>

\* req.json() resolves: validation, the cached fast-path, or the first upstream
\* request (getGeneratorFirstChunk up to `await gen.next()`)
DigBody(d) ==
    /\ dig[d].pc = "body"
    /\ \E body \in Bodies :
         LET articleUrl == IF Falsy(body.article_url) THEN "" ELSE body.article_url
             urlOk == Protocol(articleUrl) \in {"http:", "https:"}
             initial == initialDig(body.messages)
             cached == IF initial THEN getCachedDig(digCacheFile, articleUrl, clock)
                       ELSE NullResult
         IN  IF articleUrl = "" \/ ~urlOk
             THEN /\ dig' = [dig EXCEPT ![d] = [@ EXCEPT !.pc = "responded", !.status = 400]]
                  /\ dlast' = NoDLast
             ELSE /\ dig' = [dig EXCEPT ![d] =
                      IF ~cached.isNull
                      THEN [@ EXCEPT !.pc = "responded", !.status = 200,
                                     !.articleUrl = articleUrl, !.initialDig = initial,
                                     !.streamed = <<cached.value.markdown, "[DONE]">>]
                      ELSE [@ EXCEPT !.pc = "first", !.attempts = 1,
                                     !.articleUrl = articleUrl, !.initialDig = initial]]
                  /\ dlast' = IF initial
                              THEN [NoDLast EXCEPT !.op = "get", !.d = d,
                                                   !.articleUrl = articleUrl,
                                                   !.now = clock, !.got = cached]
                              ELSE NoDLast
    /\ UNCHANGED <<digCacheFile, diggerVars, clock, recapVars>>

\* err instanceof HttpResponseError && err.status >= 500 && err.status < 600
Retried(err) == err.kind = "http" /\ err.status >= 500 /\ err.status < 600

UpstreamFails_RetryAny(d) ==
    /\ dig[d].pc \in {"first", "second"}
    /\ \E err \in UpstreamErrs :
         /\ dig' = [dig EXCEPT ![d] =
                      IF @.pc = "first"
                      THEN [@ EXCEPT !.pc = "second", !.attempts = 2, !.firstErr = err]
                      ELSE [@ EXCEPT !.pc = "responded", !.status = 502]]
         /\ dlast' = [NoDLast EXCEPT !.op = "fail", !.d = d, !.err = err,
                                     !.attempt = dig[d].attempts]
    /\ UNCHANGED <<digCacheFile, diggerVars, clock, recapVars>>

\* gen.next() rejects: the catch of the first request retries once on a 5xx
\* HttpResponseError; every other error, and any error of the retry, is answered 502
UpstreamFails(d) ==
    /\ dig[d].pc \in {"first", "second"}
    /\ \E err \in UpstreamErrs :
         /\ dig' = [dig EXCEPT ![d] =
                      IF @.pc = "first" /\ Retried(err)
                      THEN [@ EXCEPT !.pc = "second", !.attempts = 2, !.firstErr = err]
                      ELSE [@ EXCEPT !.pc = "responded", !.status = 502,
                                     !.firstErr = IF @.kind = "none" THEN err ELSE @]]
         /\ dlast' = [NoDLast EXCEPT !.op = "fail", !.d = d, !.err = err,
                                     !.attempt = dig[d].attempts]
    /\ UNCHANGED <<digCacheFile, diggerVars, clock, recapVars>>

\* `if (delta) assistantAccum += delta` and controller.enqueue of the chunk
Enqueue(dg, chunk) ==
    [dg EXCEPT !.accum = IF Falsy(chunk.content) THEN @ ELSE @ \o chunk.content,
               !.streamed = Append(@, StringOrEmpty(chunk.content)),
               !.chunks = @ + 1]

\* the finally block of start(controller): [DONE], close, and the cache write
Finish(d, dg) ==
    /\ dig' = [dig EXCEPT ![d] = [dg EXCEPT !.pc = "responded",
                                            !.streamed = Append(@, "[DONE]")]]
    /\ IF dg.initialDig /\ dg.accum # ""
       THEN /\ digCacheFile' = setCachedDig(digCacheFile, dg.articleUrl, dg.accum, clock)
            /\ dlast' = [NoDLast EXCEPT !.op = "set", !.d = d,
                                        !.articleUrl = dg.articleUrl, !.now = clock,
                                        !.markdown = dg.accum, !.before = digCacheFile]
       ELSE /\ digCacheFile' = digCacheFile
            /\ dlast' = NoDLast

\* gen.next() resolves with the first chunk, or done: the handler returns the
\* streaming Response, start(controller) runs up to the first await of its loop
UpstreamFirst(d) ==
    /\ dig[d].pc \in {"first", "second"}
    /\ \/ \E chunk \in Chunks :
            dig' = [dig EXCEPT ![d] = [Enqueue(@, chunk) EXCEPT !.pc = "streaming",
                                                                !.status = 200]]
       \/ dig' = [dig EXCEPT ![d] = [@ EXCEPT !.pc = "streaming", !.status = 200]]
    /\ dlast' = NoDLast
    /\ UNCHANGED <<digCacheFile, diggerVars, clock, recapVars>>

\* the loop receives a chunk; one with an error field ends the loop
StreamChunk(d) ==
    /\ dig[d].pc = "streaming"
    /\ dig[d].chunks < MaxChunks
    /\ \E chunk \in Chunks :
         IF chunk.error THEN Finish(d, Enqueue(dig[d], chunk))
         ELSE /\ dig' = [dig EXCEPT ![d] = Enqueue(@, chunk)]
              /\ dlast' = NoDLast
              /\ digCacheFile' = digCacheFile
    /\ UNCHANGED <<diggerVars, clock, recapVars>>

\* the upstream stream ends, or breaks (the error is swallowed)
StreamEnds(d) ==
    /\ dig[d].pc = "streaming"
    /\ Finish(d, dig[d])
    /\ UNCHANGED <<diggerVars, clock, recapVars>>

\* time passes
TickDig ==
    /\ \E t \in DigInstants :
         /\ t > clock
         /\ \A u \in DigInstants : u > clock => t <= u
         /\ clock' = t
    /\ dlast' = NoDLast
    /\ UNCHANGED <<digCacheFile, dig, diggerVars, recapVars>>

InitDig ==
    /\ DiggerAtRest
    /\ DigAtRest
    /\ RecapAtRest

NextDig ==
    \/ \E d \in Digs : DigRequest(d)
    \/ \E d \in Digs : DigBodyFails(d)
    \/ \E d \in Digs : DigBody(d)
    \/ \E d \in Digs : UpstreamFails(d)
    \/ \E d \in Digs : UpstreamFirst(d)
    \/ \E d \in Digs : StreamChunk(d)
    \/ \E d \in Digs : StreamEnds(d)
    \/ TickDig

SpecDig == InitDig /\ [][NextDig]_vars

(* ===== SpecRecap: GET /, the recap generations and the midnight scheduler ===== *)
Noon == msInDay \div 2

\* the instants of the recap feature: midnight and noon of each day
RecapInstants ==
    {d * msInDay + o : d \in (StartDay - HistDays - 1)..(StartDay + MaxMidnights),
                       o \in {0, Noon}}

\* new Date(s) on the strings toISOString gives; any other string is an invalid date
IsoOf == [t \in RecapInstants |-> toISOString(t)]

DateOf(s) ==
    LET ts == {t \in RecapInstants : IsoOf[t] = s}
    IN  IF ts = {} THEN NaNValue ELSE Num(CHOOSE t \in ts : TRUE)

\* formatDate: the calendar day of a date (the process runs in UTC), as a string
formatDate(date) == IF date.nan THEN "NaN-NaN-NaN" ELSE ToString(date.t \div msInDay)

\* `const d = new Date(today); d.setDate(today.getDate() - i)`
DaysBefore(today, i) == Num(today - i * msInDay)

ArticleReference(item) ==
    [title |-> IF Falsy(Field(item, "title")) THEN "Untitled" ELSE item.title,
     link |-> IF Falsy(Field(item, "link")) THEN "" ELSE item.link,
     description |-> "",
     pubDate |-> item.pubDate]

filterArticlesByDate(items, targetDate) ==
    LET sameDay(item) ==
            /\ ~Falsy(Field(item, "pubDate"))
            /\ formatDate(DateOf(item.pubDate)) = formatDate(targetDate)
        filtered == SelectSeq(items, sameDay)
    IN  [k \in 1..Len(filtered) |-> ArticleReference(filtered[k])]

DailyRecap(targetDate, html, articles) ==
    [date |-> formatDate(targetDate), html |-> html, articles |-> articles]

\* the source feeds: items of the days around StartDay, one without pubDate, one
\* whose pubDate is no date
ItemOn(day, o) ==
    [title |-> "t" \o ToString(day), link |-> "http://x/" \o ToString(day),
     pubDate |-> toISOString(day * msInDay + o)]

FeedContents ==
    <<  <<ItemOn(StartDay, Noon), ItemOn(StartDay - 1, 0), ItemOn(StartDay - 1, Noon),
        ItemOn(StartDay - 3, Noon), ItemOn(StartDay - 6, Noon), ItemOn(StartDay + 1, 0),
        [title |-> "undated", link |-> "http://x/u"],
        [title |-> "misdated", link |-> "http://x/m", pubDate |-> "garbage"]>>,
      <<ItemOn(StartDay - 2, Noon), ItemOn(StartDay - 5, 0), ItemOn(StartDay, Noon)>>,
      <<ItemOn(StartDay, 0)>>  >>

WebPool ==
    {[f \in RecapFeeds |-> IF f = "http://f" THEN FeedContents[n] ELSE FeedContents[n + 1]] :
        n \in {1, 2}}

StartTimes == {StartDay * msInDay + o : o \in {0, Noon}}

\* a generation: generateHistoricalRecaps ("hist") or generateRecapForFeed ("daily")
\* pc: "fetch" (await parser.parseURL), "llm" (await askAi for the day today - i),
\* "done", "failed" (the promise rejected), "exit" (it called process.exit)
NewTask(kind, feed, run) ==
    [kind |-> kind, feed |-> feed, run |-> run, pc |-> "fetch", today |-> 0, i |-> 0,
     attempted |-> {}, failed |-> {}]

\* the next i in from..HistDays whose day has articles; 0 when the loop ends
NextHistDay_StopAtGap(items, today, from) ==
    IF from <= HistDays /\ filterArticlesByDate(items, DaysBefore(today, from)) # <<>>
    THEN from ELSE 0

\* `for (let i = 1; i < days + 1; i++) { ... if (articlesForDay.length > 0) ...`
NextHistDay(items, today, from) ==
    LET with == {i \in from..HistDays :
                    filterArticlesByDate(items, DaysBefore(today, i)) # <<>>}
    IN  IF with = {} THEN 0 ELSE CHOOSE i \in with : \A j \in with : i <= j

\* the file earlier daily runs for http://g have left, the oldest recap first
RECURSIVE StoredOn(_)
StoredOn(days) ==
    IF days = <<>> THEN FileOf([feeds |-> <<>>])
    ELSE storeRecap(StoredOn(SubSeq(days, 1, Len(days) - 1)), "http://g",
                    DailyRecap(Num(days[Len(days)] * msInDay), "<p>old</p>", <<>>))

\* initializeStorage writes { feeds: [] } when there is no file, and leaves a file
\* of an earlier run as it is: here one that tracks http://g
StoragePool ==
    {FileOf([feeds |-> <<>>]), StoredOn(<<StartDay - 5, StartDay - 2, StartDay - 1>>)}

\* the process starts: the server listens and setTimeout(..., msToMidnight) is set
InitRecap ==
    /\ DiggerAtRest
    /\ DigAtRest
    /\ clock \in StartTimes
    /\ storage \in StoragePool
    /\ sched = [NoSched EXCEPT !.started = clock,
                               !.timeout = clock + (msInDay - (clock % msInDay))]
    /\ tasks = <<>>
    /\ alive = TRUE
    /\ rlast = NoRLast
    /\ web \in WebPool

HistTasks == {k \in 1..Len(tasks) : tasks[k].kind = "hist"}

\* Date.parse and new Date(...).getTime() on the strings formatDate gives: midnight
\* (UTC) of that day; NaN on any other modelled string
RecapDays == (StartDay - HistDays - 1)..(StartDay + MaxMidnights)

YmdOf == [d \in RecapDays |-> formatDate(Num(d * msInDay))]

DateParseYmd(s) ==
    LET ds == {d \in RecapDays : YmdOf[d] = s}
    IN  IF ds = {} THEN NaNValue ELSE Num((CHOOSE d \in ds : TRUE) * msInDay)

\* `recaps.filter((r) => today - Date.parse(r.date) < msInDay * 7)`
recentRecaps(recaps, today) ==
    LET recent(r) == LET parsed == DateParseYmd(r.date)
                     IN  ~parsed.nan /\ today - parsed.t < msInDay * 7
    IN  SelectSeq(recaps, recent)

\* `[...recaps].sort((a, b) => new Date(b.date).getTime() - new Date(a.date).getTime())`
\* on recaps whose dates parse: a stable sort, newest first
RECURSIVE sortedRecaps(_)
sortedRecaps(recaps) ==
    IF recaps = <<>> THEN <<>>
    ELSE LET first == Head(recaps)
             rest == sortedRecaps(Tail(recaps))
             newer(r) == DateParseYmd(r.date).t > DateParseYmd(first.date).t
             notNewer(r) == ~newer(r)
         IN  SelectSeq(rest, newer) \o <<first>> \o SelectSeq(rest, notNewer)

\* one feed.item per recap, in the order given
FeedItems(feedUrl, recaps) ==
    [k \in 1..Len(recaps) |->
        [title |-> "Daily Recap - " \o recaps[k].date,
         url |-> feedUrl,
         guid |-> feedUrl \o "#" \o recaps[k].date,
         date |-> DateParseYmd(recaps[k].date)]]

buildRSSFeed_Unsorted(feedUrl, recaps) == FeedItems(feedUrl, recaps)

\* buildRSSFeed: the items of the feed
buildRSSFeed(feedUrl, recaps) == FeedItems(feedUrl, sortedRecaps(recaps))

\* routes["/"]: the handler has no await; generateHistoricalRecaps(feedUrl, 5) is
\* started and not awaited
RecapRequest ==
    /\ alive
    /\ \E feedUrl \in {Null} \cup RecapFeeds :
         IF Falsy(feedUrl)
         THEN /\ rlast' = [NoRLast EXCEPT !.op = "request", !.status = 400]
              /\ tasks' = tasks
         ELSE LET recaps == getDailyRecaps(storage, feedUrl)
              IN  /\ recaps.isNull => Cardinality(HistTasks) < MaxHist
                  /\ tasks' = IF recaps.isNull
                              THEN Append(tasks, NewTask("hist", feedUrl, clock))
                              ELSE tasks
                  /\ rlast' = [NoRLast EXCEPT !.op = "request", !.feed = feedUrl,
                                              !.status = 200, !.started = recaps.isNull,
                                              !.k = IF recaps.isNull THEN Len(tasks) + 1 ELSE 0,
                                              !.out = buildRSSFeed(feedUrl,
                                                        recentRecaps(
                                                          IF recaps.isNull THEN <<>>
                                                          ELSE recaps.value, clock))]
    /\ UNCHANGED <<clock, storage, sched, alive, web, diggerVars, digVars>>

\* the task goes on to await askAi for the day today - i, or ends
Proceed(task, i) ==
    IF i = 0 THEN [task EXCEPT !.pc = "done", !.i = 0]
    ELSE [task EXCEPT !.pc = "llm", !.i = i, !.attempted = @ \cup {i}]

\* parser.parseURL resolves: today (yesterday) is taken from the clock
FeedFetched(k) ==
    /\ alive
    /\ tasks[k].pc = "fetch"
    /\ tasks[k].feed \in DOMAIN web
    /\ LET task == [tasks[k] EXCEPT !.today = clock]
           items == web[task.feed]
       IN  tasks' = [tasks EXCEPT ![k] =
                        IF task.kind = "hist"
                        THEN Proceed(task, NextHistDay(items, clock, 1))
                        ELSE IF filterArticlesByDate(items, DaysBefore(clock, 1)) # <<>>
                        THEN Proceed(task, 1)
                        ELSE Proceed(task, 0)]
    /\ rlast' = [NoRLast EXCEPT !.op = "fetched", !.k = k]
    /\ UNCHANGED <<clock, storage, sched, alive, web, diggerVars, digVars>>

\* parser.parseURL rejects (always does for the key "feeds")
FeedFetchFails(k) ==
    /\ alive
    /\ tasks[k].pc = "fetch"
    /\ tasks' = [tasks EXCEPT ![k] = [@ EXCEPT !.pc = "failed"]]
    /\ rlast' = [NoRLast EXCEPT !.op = "failed", !.k = k]
    /\ UNCHANGED <<clock, storage, sched, alive, web, diggerVars, digVars>>

\* askAi returns the content of the reply: storeRecap, then on with the loop
LlmReplies(k) ==
    /\ alive
    /\ tasks[k].pc = "llm"
    /\ LET task == tasks[k]
           targetDate == DaysBefore(task.today, task.i)
           articles == filterArticlesByDate(web[task.feed], targetDate)
           recap == DailyRecap(targetDate, "<p>recap</p>", articles)
       IN  /\ storage' = storeRecap(storage, task.feed, recap)
           /\ tasks' = [tasks EXCEPT ![k] =
                          IF task.kind = "hist"
                          THEN Proceed(task, NextHistDay(web[task.feed], task.today, task.i + 1))
                          ELSE Proceed(task, 0)]
           /\ rlast' = [NoRLast EXCEPT !.op = "stored", !.k = k, !.feed = task.feed,
                                       !.date = recap.date]
    /\ UNCHANGED <<clock, sched, alive, web, diggerVars, digVars>>

\* askAi throws (fetch or res.json() rejects, or the reply has no choices):
\* generateHistoricalRecaps catches and goes on, generateRecapForFeed rejects
LlmFails(k) ==
    /\ alive
    /\ tasks[k].pc = "llm"
    /\ LET task == [tasks[k] EXCEPT !.failed = @ \cup {tasks[k].i}]
       IN  tasks' = [tasks EXCEPT ![k] =
                        IF task.kind = "hist"
                        THEN Proceed(task, NextHistDay(web[task.feed], task.today, task.i + 1))
                        ELSE [task EXCEPT !.pc = "failed"]]
    /\ rlast' = [NoRLast EXCEPT !.op = "failed", !.k = k]
    /\ UNCHANGED <<clock, storage, sched, alive, web, diggerVars, digVars>>

\* the reply has no content: askAi calls process.exit(1)
LlmEmpty(k) ==
    /\ alive
    /\ tasks[k].pc = "llm"
    /\ tasks' = [tasks EXCEPT ![k] = [@ EXCEPT !.pc = "exit", !.failed = @ \cup {tasks[k].i}]]
    /\ alive' = FALSE
    /\ rlast' = [NoRLast EXCEPT !.op = "exit", !.k = k]
    /\ UNCHANGED <<clock, storage, sched, web, diggerVars, digVars>>

\* the setTimeout callback: setInterval(..., msInDay)
TimeoutFires ==
    /\ alive
    /\ sched.timeout = clock
    /\ sched' = [sched EXCEPT !.timeout = NoTimer, !.interval = clock + msInDay]
    /\ rlast' = NoRLast
    /\ UNCHANGED <<clock, storage, tasks, alive, web, diggerVars, digVars>>

RECURSIVE SeqOfSet(_)
SeqOfSet(S) == IF S = {} THEN <<>>
               ELSE LET x == CHOOSE x \in S : TRUE IN <<x>> \o SeqOfSet(S \ {x})

\* the setInterval callback: generateDailyRecapsForAllFeeds() up to its await;
\* one generateRecapForFeed per key of the storage object
IntervalFires ==
    /\ alive
    /\ sched.interval = clock
    /\ sched' = [sched EXCEPT !.interval = clock + msInDay, !.triggers = @ \cup {clock}]
    /\ LET feedKeys == SeqOfSet(DOMAIN readStorage(storage))
       IN  tasks' = tasks \o [n \in 1..Len(feedKeys) |-> NewTask("daily", feedKeys[n], clock)]
    /\ rlast' = [NoRLast EXCEPT !.op = "trigger"]
    /\ UNCHANGED <<clock, storage, alive, web, diggerVars, digVars>>

\* time passes, up to the next instant; a timer that is due runs first
TickRecap ==
    /\ alive => (sched.timeout # clock /\ sched.interval # clock)
    /\ \E t \in RecapInstants :
         /\ t > clock
         /\ \A u \in RecapInstants : u > clock => t <= u
         /\ clock' = t
    /\ rlast' = NoRLast
    /\ UNCHANGED <<storage, sched, tasks, alive, web, diggerVars, digVars>>

NextRecap ==
    \/ RecapRequest
    \/ \E k \in 1..Len(tasks) : FeedFetched(k)
    \/ \E k \in 1..Len(tasks) : FeedFetchFails(k)
    \/ \E k \in 1..Len(tasks) : LlmReplies(k)
    \/ \E k \in 1..Len(tasks) : LlmFails(k)
    \/ \E k \in 1..Len(tasks) : LlmEmpty(k)
    \/ TimeoutFires
    \/ IntervalFires
    \/ TickRecap

SpecRecap == InitRecap /\ [][NextRecap]_vars

(* ===== SpecRecapLive: the same, every feed fetch and LLM call succeeding ===== *)
NextRecapLive ==
    \/ RecapRequest
    \/ \E k \in 1..Len(tasks) : FeedFetched(k)
    \/ \E k \in 1..Len(tasks) : LlmReplies(k)
    \/ TimeoutFires
    \/ IntervalFires
    \/ TickRecap

\* a request that is under way gets its response, and the continuation runs; the
\* generations are finitely many and each takes finitely many steps
TaskStep == \E k \in 1..Len(tasks) : FeedFetched(k) \/ LlmReplies(k)

\* the process starts on a machine without storage file
InitRecapLive ==
    /\ InitRecap
    /\ storage = FileOf([feeds |-> <<>>])

SpecRecapLive == InitRecapLive /\ [][NextRecapLive]_vars /\ WF_vars(TaskStep)

(* ============ SpecStorage: storeRecap called on small storage files ============ *)
\* the keys storeRecap is called with: the feeds, and the key initializeStorage writes
StorageKeys == RecapFeeds \cup {"feeds"}

RecapPool ==
    {DailyRecap(Num(d * msInDay), html, <<>>) :
        d \in {StartDay - 2, StartDay - 1}, html \in {"<p>a</p>", "<p>b</p>"}}

InitStorage ==
    /\ DiggerAtRest
    /\ DigAtRest
    /\ clock = 0
    /\ storage \in StoragePool
    /\ sched = NoSched
    /\ tasks = <<>>
    /\ alive = TRUE
    /\ rlast = NoRLast
    /\ web = [f \in RecapFeeds |-> <<>>]

StoreRecap ==
    /\ \E feedUrl \in StorageKeys, recap \in RecapPool :
         /\ storage' = storeRecap(storage, feedUrl, recap)
         /\ rlast' = [NoRLast EXCEPT !.op = "store", !.feed = feedUrl,
                                     !.date = recap.date, !.html = recap.html]
    /\ UNCHANGED <<clock, sched, tasks, alive, web, diggerVars, digVars>>

GetDailyRecaps ==
    /\ \E feedUrl \in StorageKeys :
         rlast' = [NoRLast EXCEPT !.op = "get", !.feed = feedUrl,
                                  !.status = IF getDailyRecaps(storage, feedUrl).isNull
                                             THEN 0 ELSE 1]
    /\ UNCHANGED <<clock, storage, sched, tasks, alive, web, diggerVars, digVars>>

NextStorage ==
    \/ StoreRecap
    \/ GetDailyRecaps

SpecStorage == InitStorage /\ [][NextStorage]_vars

TypeOK ==
    /\ \A r \in Reqs : req[r].pc \in {"idle", "parsing", "scanning", "responded"}
    /\ \A r \in Reqs : \A i \in 1..Len(scan[r]) :
          scan[r][i].pc \in {"page", "images", "resolved", "rejected", "hung"}

(* ============================== properties ============================= *)
ScansIn(r, pc) == {i \in 1..Len(scan[r]) : scan[r][i].pc = pc}

CacheGuids == {Field(getCache(cacheFile)[k], "guid") : k \in 1..Len(getCache(cacheFile))}

\* C1: when the scan of exactly one retained item fails by reject() (no img[src] on
\* its page, or no candidate of area > 0) and the scans of all the others succeed,
\* the request is answered 200 and the output feed holds one entry per successful
\* item and none for the failed one.
C1_OneFailureIsSwallowed ==
    \A r \in Reqs :
        (/\ Len(scan[r]) >= 2
         /\ Cardinality(ScansIn(r, "rejected")) = 1
         /\ Cardinality(ScansIn(r, "resolved")) = Len(scan[r]) - 1)
        => /\ req[r].pc = "responded"
           /\ req[r].status = 200
           /\ Len(req[r].out) = Len(scan[r]) - 1
           /\ \A i \in ScansIn(r, "resolved") :
                 \E k \in 1..Len(req[r].out) :
                     req[r].out[k] = FeedEntry(req[r].items[i], scan[r][i].url)

C2_Downloaded(imgs) == {k \in 1..Len(imgs) : imgs[k].blob.kind = "image"}

C2_Area(imgs, k) == imgs[k].blob.w * imgs[k].blob.h

C2_SelectorRan ==
    /\ last.op = "scan"
    /\ last.why \notin {"page", "download"}
    /\ \A k \in 1..Len(last.imgs) : last.imgs[k].blob.kind # "garbage"

\* C2: on the candidates of one article, all of them decodable, the selected image
\* is a downloaded candidate of maximal width*height and the first such in page
\* order; when no candidate has area > 0 the scan is rejected and nothing is selected.
C2_LargestFirstWins ==
    C2_SelectorRan =>
        LET imgs == last.imgs
            D == C2_Downloaded(imgs)
        IN  IF \A k \in D : C2_Area(imgs, k) = 0
            THEN last.outcome = "rejected" /\ ~last.set
            ELSE /\ last.outcome = "resolved"
                 /\ \E k \in D :
                       /\ last.imageUrl = imgs[k].url
                       /\ C2_Area(imgs, k) > 0
                       /\ \A j \in D : C2_Area(imgs, j) <= C2_Area(imgs, k)
                       /\ \A j \in D : j < k => C2_Area(imgs, j) < C2_Area(imgs, k)

\* a tie for the largest area, won by the earlier candidate
C2_Witness ==
    /\ C2_SelectorRan
    /\ last.outcome = "resolved"
    /\ \E k, j \in C2_Downloaded(last.imgs) :
          /\ k < j
          /\ last.imageUrl = last.imgs[k].url
          /\ C2_Area(last.imgs, j) = C2_Area(last.imgs, k)

\* C3: right after set(id, imageUrl, title, description), get(id) returns an entry
\* with exactly those values; the store has as many entries as before when id was
\* present, and one more when it was absent.
C3_SetThenGet ==
    last.set =>
        LET got == getCacheForGuid(cacheFile, last.guid)
        IN  /\ ~got.isNull
            /\ Field(got.value, "guid") = last.guid
            /\ Field(got.value, "imageUrl") = last.imageUrl
            /\ Field(got.value, "title") = last.title
            /\ Field(got.value, "description") = last.description
            /\ Len(getCache(cacheFile)) =
                  IF last.present THEN last.before ELSE last.before + 1

\* a set on an id already stored, with a new title
C3_Witness ==
    /\ last.set
    /\ last.present
    /\ last.title = "T1b"

\* C4: the Feed Cache never holds two entries with the same article id.
C4_OneEntryPerId ==
    LET cache == getCache(cacheFile)
    IN  \A k, l \in 1..Len(cache) :
            Field(cache[k], "guid") = Field(cache[l], "guid") => k = l

\* two requests have written, the second one an id the store already held
C4_Witness ==
    /\ last.set
    /\ last.present
    /\ last.r = 2
    /\ Len(getCache(cacheFile)) >= 2

C5_BothReturned(r, i, j) ==
    /\ i # j
    /\ scan[r][i].pc = "resolved"
    /\ scan[r][j].pc = "resolved"
    /\ req[r].items[i].guid # req[r].items[j].guid

C6_Dates(items) == {DateParse(items[k].pubDate) : k \in 1..Len(items)}

C6_DistinctParseable(items) ==
    /\ \A k \in 1..Len(items) : ~DateParse(items[k].pubDate).nan
    /\ Cardinality(C6_Dates(items)) = Len(items)

\* the items of the feed that fewer than KeepCount others are more recent than
C6_MostRecent(items) ==
    {items[k] : k \in {k \in 1..Len(items) :
        Cardinality({l \in 1..Len(items) :
            DateParse(items[l].pubDate).t > DateParse(items[k].pubDate).t}) < KeepCount}}

\* C6: for a source feed whose items have distinct, parseable pubDates, the items
\* scanned are exactly the min(n, KeepCount) items of most recent pubDate, whatever
\* the order of the feed: a page is fetched, and an entry emitted, for those only.
C6_TenMostRecent ==
    /\ (last.op = "feed" /\ C6_DistinctParseable(last.inItems)) =>
          LET r == last.r
              kept == C6_MostRecent(last.inItems)
          IN  /\ {req[r].items[k] : k \in 1..Len(req[r].items)} = kept
              /\ Len(req[r].items) = Min(Len(last.inItems), KeepCount)
              /\ Len(scan[r]) = Len(req[r].items)
              /\ {req[r].pageFetches[k] : k \in 1..Len(req[r].pageFetches)}
                    = {x.link : x \in kept}
              /\ Len(req[r].pageFetches) = Len(req[r].items)
    /\ \A r \in Reqs : \A k \in 1..Len(req[r].out) :
          \E i \in 1..Len(req[r].items) : req[r].out[k].guid = req[r].items[i].guid

\* a feed of more than KeepCount items whose oldest item comes first
C6_Witness ==
    /\ last.op = "feed"
    /\ C6_DistinctParseable(last.inItems)
    /\ Len(last.inItems) > KeepCount
    /\ \A k \in 2..Len(last.inItems) :
          DateParse(last.inItems[1].pubDate).t < DateParse(last.inItems[k].pubDate).t
    /\ Len(scan[last.r]) = KeepCount

\* C7: no download is ever issued for an img src that does not end in the exact
\* suffix .jpg or .png, and such a src is never the selected image.
C7_OnlyDotJpgOrPng ==
    /\ \A src \in downloads : EndsInDotJpgOrPng(src)
    /\ \A r \in Reqs : \A i \in 1..Len(scan[r]) :
          scan[r][i].pc = "resolved" => EndsInDotJpgOrPng(scan[r][i].url)

\* C8: when the fetch of the article page, or the download of a candidate, fails,
\* the promise of that item's scan is settled as rejected, and no cache entry is
\* written for the item.
C8_FailureIsDelivered ==
    (last.op = "scan" /\ last.why \in {"page", "download"})
    => /\ scan[last.r][last.i].pc = "rejected"
       /\ ~last.set

C9_FeedFailed(r) ==
    /\ req[r].pc = "responded"
    /\ req[r].status = 500
    /\ req[r].fetches = 1
    /\ Len(scan[r]) = 0
    /\ req[r].pageFetches = <<>>
    /\ req[r].out = <<>>

\* C9: when fetching or parsing the source feed fails, the request is answered
\* with status 500, no scan is started and no page fetched, the feed has been
\* requested once, and the step leaves the Feed Cache as it was.
C9_FeedFailureIsFatal ==
    /\ [](\A r \in Reqs : req[r].feedFailed => C9_FeedFailed(r))
    /\ [][\A r \in Reqs : (req'[r].feedFailed /\ ~req[r].feedFailed)
                            => cacheFile' = cacheFile]_vars

\* the feed of the second request fails while the store holds an entry
C9_Witness ==
    /\ req[2].feedFailed
    /\ Len(getCache(cacheFile)) >= 1

C10_Hits(guid) ==
    {k \in 1..Len(getCache(cacheFile)) : Field(getCache(cacheFile)[k], "guid") = guid}

\* C10: GET /article answers 400 when guid is absent or empty; otherwise 200, with
\* the imageUrl and title of the entry, when the Feed Cache has an entry with that
\* id, and 404 when it has none; the handler leaves the cache as it was.
C10_ViewerStatus ==
    /\ [](last.op = "article" =>
            IF last.guid \in {Null, ""} THEN last.status = 400
            ELSE IF C10_Hits(last.guid) = {} THEN last.status = 404
            ELSE /\ last.status = 200
                 /\ \E k \in C10_Hits(last.guid) :
                       /\ last.imageUrl = Field(getCache(cacheFile)[k], "imageUrl")
                       /\ last.title = Field(getCache(cacheFile)[k], "title"))
    /\ [][last'.op = "article" => cacheFile' = cacheFile]_vars

\* a hit on the first entry of the store
C10_Witness ==
    /\ last.op = "article"
    /\ last.status = 200
    /\ last.guid = Field(getCache(cacheFile)[1], "guid")

\* C11: a GET / request whose feed parameter is missing or empty is answered with
\* status 400; the step issues no network call (no feed fetch, no page fetch, no
\* download), starts no scan, and leaves the Feed Cache as it was.
C11_NoFeedNoEffect ==
    [][(last'.op = "request" /\ Falsy(last'.feed))
       => /\ req'[last'.r].pc = "responded"
          /\ req'[last'.r].status = 400
          /\ req'[last'.r].fetches = 0
          /\ req'[last'.r].pageFetches = <<>>
          /\ \A q \in Reqs : q # last'.r => req'[q] = req[q]
          /\ scan' = scan
          /\ downloads' = downloads
          /\ cacheFile' = cacheFile]_vars

\* the second request comes without feed while the store holds an entry
C11_Witness ==
    /\ last.op = "request"
    /\ last.r = 2
    /\ Falsy(last.feed)
    /\ req[2].status = 400
    /\ Len(getCache(cacheFile)) >= 1

\* C14: every request of GET /?feed=<url> answered with status 200 carries the
\* header Access-Control-Allow-Origin: *.
C14_OkHasCors ==
    \A r \in Reqs : (req[r].pc = "responded" /\ req[r].status = 200) => req[r].cors

\* C12: when the cache file cannot be read or parsed, the load returns zero entries
\* without raising: get(id) is not-found for every id, and the next set(id, ...)
\* leaves a store holding exactly the one entry just written.
C12_UnreadableIsEmpty ==
    /\ [](~cacheFile.readable
            => /\ Len(getCache(cacheFile)) = 0
               /\ \A g \in GuidParams : getCacheForGuid(cacheFile, g).isNull)
    /\ [][(~cacheFile.readable /\ last'.set)
          => /\ Len(getCache(cacheFile')) = 1
             /\ Field(getCache(cacheFile')[1], "guid") = last'.guid]_vars

\* C13: the store is empty when the process has just started, at first and after
\* every restart, whatever was written before; and an id for which get returned
\* not-found is found after a step only if that step is a set of this id.
C13_FoundOnlyIfSetSinceStart ==
    /\ Len(getCache(cacheFile)) = 0
    /\ [](last.op = "restart"
            => /\ Len(getCache(cacheFile)) = 0
               /\ \A g \in GuidParams : getCacheForGuid(cacheFile, g).isNull)
    /\ [][\A g \in GuidParams :
            (getCacheForGuid(cacheFile, g).isNull /\ ~getCacheForGuid(cacheFile', g).isNull)
            => (last'.set /\ last'.guid = g)]_vars

\* a restart on a store that held two entries: neither id is found after it
C13_Witness ==
    /\ last.op = "restart"
    /\ last.before = 2
    /\ getCacheForGuid(cacheFile, "g1").isNull
    /\ getCacheForGuid(cacheFile, "g2").isNull

\* C15: a POST /dig/stream request issues at most two upstream requests; the second
\* is issued only when the first failed, before any chunk, with an HTTP status in
\* 500..599; when the first fails with anything else, or the second fails, the
\* request is answered 502 with nothing streamed, the step leaves the dig cache as
\* it was, and the request never writes to it afterwards.
C15_RetryOnceOn5xx ==
    /\ [](\A d \in Digs :
            /\ dig[d].attempts <= 2
            /\ dig[d].attempts = 2 => Retried(dig[d].firstErr)
            /\ dig[d].status = 502 => (dig[d].streamed = <<>> /\ dig[d].pc = "responded"))
    /\ [](dlast.op = "fail" =>
            /\ dig[dlast.d].streamed = <<>>
            /\ IF dlast.attempt = 1 /\ Retried(dlast.err)
               THEN dig[dlast.d].pc = "second" /\ dig[dlast.d].attempts = 2
               ELSE dig[dlast.d].pc = "responded" /\ dig[dlast.d].status = 502)
    /\ [][dlast'.op = "fail" => digCacheFile' = digCacheFile]_vars
    /\ [][\A d \in Digs : dig[d].status = 502 => dig'[d] = dig[d]]_vars
    /\ [][digCacheFile' # digCacheFile
          => (dlast'.op = "set" /\ dig'[dlast'.d].status = 200)]_vars

\* the retry of a request fails while the dig cache holds an entry
C15_Witness ==
    /\ dlast.op = "fail"
    /\ dlast.attempt = 2
    /\ dig[dlast.d].status = 502
    /\ Len(readDigCache(digCacheFile).entries) >= 1

C20_Entries == IF digCacheFile.readable THEN digCacheFile.text.entries ELSE <<>>

\* e has this articleUrl and a createdAt that parses to at most 7 days before now
C20_Fresh(e, articleUrl, now) ==
    /\ Field(e, "articleUrl") = articleUrl
    /\ Field(e, "createdAt") # Undefined
    /\ ~DateParseISO(e.createdAt).nan
    /\ now - DateParseISO(e.createdAt).t <= DIG_TTL_MS

C20_Same(e, f) ==
    \A key \in {"articleUrl", "markdown", "createdAt"} : Field(e, key) = Field(f, key)

\* C20: getCachedDig(articleUrl, now) returns an entry only if the cache file holds
\* an entry with that articleUrl whose createdAt parses to at most 7 days before
\* now, and then it returns such an entry; otherwise it returns null. The one
\* complete entry of its articleUrl is returned whenever it is that fresh, an age
\* of exactly 7 days included. The call leaves the cache file as it was.
C20_GetIsFreshOrNull ==
    /\ [](dlast.op = "get" =>
            LET entries == C20_Entries
                fresh == {k \in 1..Len(entries) :
                             C20_Fresh(entries[k], dlast.articleUrl, dlast.now)}
                same == {k \in 1..Len(entries) :
                             Field(entries[k], "articleUrl") = dlast.articleUrl}
            IN  /\ ~dlast.got.isNull
                      => \E k \in fresh : C20_Same(dlast.got.value, entries[k])
                /\ fresh = {} => dlast.got.isNull
                /\ (/\ Cardinality(same) = 1
                    /\ fresh = same
                    /\ \A k \in same : ~Falsy(Field(entries[k], "markdown")))
                      => ~dlast.got.isNull)
    /\ [][dlast'.op = "get" => digCacheFile' = digCacheFile]_vars

\* an entry aged exactly 7 days is returned
C20_Witness ==
    /\ dlast.op = "get"
    /\ ~dlast.got.isNull
    /\ dlast.now - DateParseISO(dlast.got.value.createdAt).t = DIG_TTL_MS

\* C16: while the process runs, the generation for all tracked feeds has been
\* triggered at every midnight that has passed since startup, the first one
\* included, and it has been triggered at no instant that is not a midnight after
\* startup.
C16_TriggeredAtEachMidnight ==
    alive =>
        /\ \A d \in (StartDay + 1)..(StartDay + MaxMidnights) :
              (sched.started < d * msInDay /\ d * msInDay < clock)
              => d * msInDay \in sched.triggers
        /\ \A t \in sched.triggers : t % msInDay = 0 /\ t > sched.started

\* the days among the HistDays before task.today on which the feed has an article
C17_Days(task) ==
    {i \in 1..HistDays :
        filterArticlesByDate(web[task.feed], DaysBefore(task.today, i)) # <<>>}

C17_HasRecap(feed, date) ==
    LET recaps == getDailyRecaps(storage, feed)
    IN  ~recaps.isNull /\ \E n \in 1..Len(recaps.value) : recaps.value[n].date = date

C17_Stored(k) ==
    /\ k <= Len(tasks)
    /\ tasks[k].pc = "done"
    /\ \A i \in C17_Days(tasks[k]) :
          C17_HasRecap(tasks[k].feed, formatDate(DaysBefore(tasks[k].today, i)))

\* C17: a GET /?feed=F for a feed without stored recaps starts a generation after
\* which, every feed fetch and LLM call succeeding, a recap is eventually stored
\* for each of the 5 days before today (the day the generation reads the clock)
\* on which F has an article; and a recap is stored only for a day before today on
\* which the feed has an article, by that generation only for one of those 5 days.
C17_HistoricalRecapsStored ==
    /\ [](rlast.op = "stored" =>
            LET task == tasks[rlast.k]
                days == {i \in 1..HistDays :
                            formatDate(DaysBefore(task.today, i)) = rlast.date}
            IN  /\ rlast.date # formatDate(Num(clock))
                /\ rlast.date # formatDate(Num(task.today))
                /\ days # {}
                /\ days \subseteq C17_Days(task)
                /\ C17_HasRecap(task.feed, rlast.date))
    /\ (HistTasks # {}) ~> (\A k \in HistTasks : C17_Stored(k))

\* a generation has ended with the recaps of two days stored, a day without
\* articles lying between them
C17_Witness ==
    \E k \in 1..Len(tasks) :
        /\ tasks[k].kind = "hist"
        /\ C17_Stored(k)
        /\ \E i, j \in C17_Days(tasks[k]) : j > i + 1 /\ i + 1 \notin C17_Days(tasks[k])

\* C18: when the generation of one tracked feed of a daily run has failed (feed
\* fetch or parse error, LLM request error, LLM reply without content), the
\* generation of every other feed of that run has ended by itself or is still
\* going on in a running process (or in one that something else than this run
\* has ended).
C18_OtherFeedsGoOn ==
    \A k, j \in 1..Len(tasks) :
        (/\ k # j
         /\ tasks[k].kind = "daily" /\ tasks[j].kind = "daily"
         /\ tasks[k].run = tasks[j].run
         /\ tasks[k].pc \in {"failed", "exit"})
        => \/ tasks[j].pc \in {"done", "failed"}
           \/ alive
           \/ \E e \in 1..Len(tasks) :
                 tasks[e].pc = "exit" /\ ~(tasks[e].kind = "daily" /\ tasks[e].run = tasks[j].run)

C19_Dates(file, feed) ==
    LET recaps == getDailyRecaps(file, feed)
    IN  IF recaps.isNull THEN {} ELSE {recaps.value[n].date : n \in 1..Len(recaps.value)}

\* C19: once the recap of one day has failed in generateHistoricalRecaps, the loop
\* goes on: it has attempted every day with articles up to the one it is at, it
\* is waiting for the LLM in a running process (or in one that another generation
\* has ended) or has ended, and when it has ended
\* it has attempted every day with articles; and a stored recap stays stored.
C19_LaterDaysAttempted ==
    /\ [](\A k \in HistTasks :
            tasks[k].failed # {} =>
                \/ tasks[k].pc = "done" /\ tasks[k].attempted = C17_Days(tasks[k])
                \/ /\ tasks[k].pc = "llm"
                   /\ alive \/ \E e \in 1..Len(tasks) : e # k /\ tasks[e].pc = "exit"
                   /\ tasks[k].attempted = {i \in C17_Days(tasks[k]) : i <= tasks[k].i})
    /\ [][\A feed \in RecapFeeds :
            C19_Dates(storage, feed) \subseteq C19_Dates(storage', feed)]_vars

C21_EntriesOf(file) == IF file.readable THEN file.text.entries ELSE <<>>

\* e is older than 7 days at now, or its createdAt is no date
C21_ExpiredAt(e, now) ==
    \/ Field(e, "createdAt") = Undefined
    \/ DateParseISO(Field(e, "createdAt")).nan
    \/ now - DateParseISO(Field(e, "createdAt")).t > DIG_TTL_MS

\* e has the three fields of a DigCacheEntry
C21_Complete(e) ==
    \A key \in {"articleUrl", "markdown", "createdAt"} : Field(e, key) # Undefined

C21_Same(e, f) ==
    \A key \in {"articleUrl", "markdown", "createdAt"} : Field(e, key) = Field(f, key)

C21_OnePerUrl(entries) ==
    \A j, k \in 1..Len(entries) :
        Field(entries[j], "articleUrl") = Field(entries[k], "articleUrl") => j = k

\* C21: right after setCachedDig(articleUrl, markdown, now) on a cache file with at
\* most one entry per articleUrl, the file holds exactly one entry of articleUrl,
\* which has that markdown and a createdAt that is now; it holds no entry that is
\* expired at now; and every other entry (articleUrl, markdown, createdAt) of the
\* file before the call that was not expired at now is still there, once, with
\* the same three fields.
C21_SetUpsertsAndPrunes ==
    (dlast.op = "set" /\ C21_OnePerUrl(C21_EntriesOf(dlast.before))) =>
        LET before == C21_EntriesOf(dlast.before)
            after == C21_EntriesOf(digCacheFile)
            own == {k \in 1..Len(after) : Field(after[k], "articleUrl") = dlast.articleUrl}
        IN  /\ digCacheFile.readable
            /\ Cardinality(own) = 1
            /\ \A k \in own :
                  /\ Field(after[k], "markdown") = dlast.markdown
                  /\ DateParseISO(Field(after[k], "createdAt")) = Num(dlast.now)
            /\ \A k \in 1..Len(after) : ~C21_ExpiredAt(after[k], dlast.now)
            /\ \A j \in 1..Len(before) :
                  (/\ C21_Complete(before[j])
                   /\ before[j].articleUrl # dlast.articleUrl
                   /\ ~C21_ExpiredAt(before[j], dlast.now))
                  => Cardinality({k \in 1..Len(after) : C21_Same(after[k], before[j])}) = 1

\* a call that adds an entry, drops an expired one and keeps one aged exactly 7 days
C21_Witness ==
    /\ dlast.op = "set"
    /\ LET before == C21_EntriesOf(dlast.before)
           after == C21_EntriesOf(digCacheFile)
       IN  /\ Len(before) = 2
           /\ C21_OnePerUrl(before)
           /\ \A j \in 1..2 : C21_Complete(before[j]) /\ before[j].articleUrl # dlast.articleUrl
           /\ \E j \in 1..2 : C21_ExpiredAt(before[j], dlast.now)
           /\ \E j \in 1..2 : dlast.now - DateParseISO(before[j].createdAt).t = DIG_TTL_MS
           /\ Len(after) = 2

C22_Recaps(file, feed) ==
    LET recaps == getDailyRecaps(file, feed)
    IN  IF recaps.isNull THEN <<>> ELSE recaps.value

C22_OtherDates(recaps, date) ==
    LET other(r) == r.date # date
    IN  SelectSeq(recaps, other)

\* C22: the stored list of every feed holds at most one recap per date; and right
\* after storeRecap(F, r) the list of F holds exactly one recap of the date of r,
\* which is r, the recaps of the other dates of F are the same as before, in the
\* same order, and the list of every other feed is as it was.
C22_OneRecapPerDate ==
    /\ [](\A feed \in StorageKeys :
            LET recaps == C22_Recaps(storage, feed)
            IN  \A j, k \in 1..Len(recaps) : recaps[j].date = recaps[k].date => j = k)
    /\ [][rlast'.op = "store" =>
            /\ \A feed \in StorageKeys \ {rlast'.feed} :
                  getDailyRecaps(storage', feed) = getDailyRecaps(storage, feed)
            /\ C22_OtherDates(C22_Recaps(storage', rlast'.feed), rlast'.date)
                  = C22_OtherDates(C22_Recaps(storage, rlast'.feed), rlast'.date)
            /\ LET after == C22_Recaps(storage', rlast'.feed)
                   hits == {k \in 1..Len(after) : after[k].date = rlast'.date}
               IN  /\ Cardinality(hits) = 1
                   /\ \A k \in hits : after[k].html = rlast'.html]_vars

\* a storeRecap has replaced the first of the two recaps of a feed, another feed
\* holding a recap of the same date
C22_Witness ==
    /\ rlast.op = "store"
    /\ LET recaps == C22_Recaps(storage, rlast.feed)
       IN  /\ Len(recaps) = 2
           /\ recaps[1].date = rlast.date
           /\ recaps[1].html = rlast.html
    /\ \E feed \in StorageKeys \ {rlast.feed} :
          \E k \in 1..Len(C22_Recaps(storage, feed)) :
             C22_Recaps(storage, feed)[k].date = rlast.date

\* the stored recaps of a feed whose date is less than 7 days before now
C23_Recent(file, feed, now) ==
    {r \in {C22_Recaps(file, feed)[k] : k \in 1..Len(C22_Recaps(file, feed))} :
        /\ ~DateParseYmd(r.date).nan
        /\ now - DateParseYmd(r.date).t < 7 * msInDay}

\* C23: the feed a GET /?feed=F is answered with has one item per stored recap of
\* F whose date is less than 7 days before the current time and no other item,
\* the items are in strictly descending order of date, and the request leaves
\* the storage file as it was.
C23_SevenDaysNewestFirst ==
    /\ [](rlast.op = "request" /\ rlast.status = 200 =>
            LET recent == C23_Recent(storage, rlast.feed, clock)
                out == rlast.out
            IN  /\ Len(out) = Cardinality(recent)
                /\ \A r \in recent :
                      \E k \in 1..Len(out) :
                         /\ out[k].guid = rlast.feed \o "#" \o r.date
                         /\ out[k].title = "Daily Recap - " \o r.date
                         /\ out[k].date = DateParseYmd(r.date)
                /\ \A j, k \in 1..Len(out) : j < k => out[j].date.t > out[k].date.t)
    /\ [][rlast'.op = "request" => storage' = storage]_vars

\* a request is answered with two items or more that are not in the order of the
\* stored list, which also holds a recap that is 7 days old or more
C23_Witness ==
    /\ rlast.op = "request"
    /\ rlast.status = 200
    /\ Len(rlast.out) >= 2
    /\ LET recaps == C22_Recaps(storage, rlast.feed)
       IN  /\ \E k \in 1..Len(recaps) : clock - DateParseYmd(recaps[k].date).t >= 7 * msInDay
           /\ \E j, k \in 1..Len(recaps) :
                 /\ j < k
                 /\ DateParseYmd(recaps[j].date).t < DateParseYmd(recaps[k].date).t
                 /\ clock - DateParseYmd(recaps[j].date).t < 7 * msInDay

\* the dig cache file holds an entry of articleUrl that is not expired at now
C24_HasFreshEntry(articleUrl, now) ==
    \E k \in 1..Len(C21_EntriesOf(digCacheFile)) :
        /\ Field(C21_EntriesOf(digCacheFile)[k], "articleUrl") = articleUrl
        /\ ~C21_ExpiredAt(C21_EntriesOf(digCacheFile)[k], now)

C25_Running(r, i) == scan[r][i].pc \in {"page", "images"}

\* the next step of the scan (r, i): the response to its page fetch or to one of
\* its downloads, or the failure of that fetch
C25_ScanStep(r, i) ==
    \/ PageFails(r, i)
    \/ PageLoaded(r, i, Pages)
    \/ DownloadFails(r, i)
    \/ DownloadDone(r, i)

\* C25: a step changes the state of at most one article scan, so the end of one
\* scan, failed or not, and the response of the request leave every other scan
\* as it is; a scan that has ended stays as it is; a scan that has not ended can
\* take its next step whatever the state of its request and of the other scans;
\* and a scan that resolves has written its cache entry, also when its request
\* has been answered 500 before.
C25_NoCancellation ==
    /\ [][\A r, q \in Reqs : \A i \in 1..Len(scan[r]) : \A j \in 1..Len(scan[q]) :
            (r # q \/ i # j) => (scan'[r][i] = scan[r][i] \/ scan'[q][j] = scan[q][j])]_vars
    /\ [][\A r \in Reqs : \A i \in 1..Len(scan[r]) :
            ~C25_Running(r, i) => scan'[r][i] = scan[r][i]]_vars
    /\ [](\A r \in Reqs : \A i \in 1..Len(scan[r]) :
            C25_Running(r, i) => ENABLED C25_ScanStep(r, i))
    /\ [](last.op = "scan" /\ last.outcome = "resolved" =>
            LET got == getCacheForGuid(cacheFile, req[last.r].items[last.i].guid)
            IN  /\ last.set
                /\ ~got.isNull
                /\ Field(got.value, "imageUrl") = scan[last.r][last.i].url)

\* a scan writes its cache entry after another scan of the request has been
\* rejected and the request answered 500
C25_Witness ==
    /\ last.op = "scan"
    /\ last.outcome = "resolved"
    /\ last.set
    /\ req[last.r].pc = "responded"
    /\ req[last.r].status = 500
    /\ ScansIn(last.r, "rejected") # {}
    /\ req[last.r].items[last.i].guid \in CacheGuids

\* the step has answered request r with the output feed
C26_Responds(r) ==
    /\ last.op = "scan"
    /\ last.outcome = "resolved"
    /\ last.r = r
    /\ req[r].pc = "responded"
    /\ req[r].status = 200

\* C26: when GET /?feed= is answered with the output feed, the Feed Cache holds,
\* for every entry of that feed, an entry under the guid of the entry whose
\* imageUrl is the enclosure URL of the entry; from then on the cache holds an
\* entry under that guid in every state (the viewer URL of the entry is never
\* answered 404), and no step removes a guid from the cache.
C26_EmittedEntriesAreCached ==
    /\ [](\A r \in Reqs : C26_Responds(r) =>
            \A k \in 1..Len(req[r].out) :
               LET got == getCacheForGuid(cacheFile, req[r].out[k].guid)
               IN  /\ ~got.isNull
                   /\ Field(got.value, "imageUrl") = req[r].out[k].enclosure)
    /\ [](\A r \in Reqs : (req[r].pc = "responded" /\ req[r].status = 200) =>
            \A k \in 1..Len(req[r].out) :
               ~getCacheForGuid(cacheFile, req[r].out[k].guid).isNull)
    /\ [][CacheGuids \subseteq CacheGuids']_vars

====
